---- MODULE Spec2Model ----
(***************************************************************************)
(* A model of the book-rag backend (backend/app): the in-memory session    *)
(* store, the answer guardrails, the background ingestion of an upload,    *)
(* the chat pipeline and the markdown export.                              *)
(*                                                                         *)
(* Scheduling.  The backend is one asyncio event loop.  A task gives up    *)
(* control only where it awaits a network call of the gateway client;      *)
(* `await session.log(..)` and `async with session.lock` never suspend     *)
(* (log() holds no await, and the lock is never held across a suspension,  *)
(* so it is always free when a task asks for it).  Each action below is    *)
(* therefore the code that runs between two suspension points.             *)
(***************************************************************************)
EXTENDS Integers, Sequences, FiniteSets, TLC

VARIABLES
    \* session_store.py: the clock and the SESSIONS registry
    now,          \* time.time(), in whole seconds
    SESSIONS,     \* session id -> the timing fields of its SessionState
    touched,      \* session id -> the (time, ttl) of the last touch() of a registered session,
                  \* and whether the session was past its expiry when touched
    store_ret,    \* the last session-store call and what it returned
    \* a pure function under check: its arguments and its result
    call,
    ret,
    \* main.py: one session object, the ingestion tasks, the chat requests, the export
    session,
    ingest,
    chat,
    export,
    \* session_store.py / main.py: the log buffer of the session and its stream readers
    log,
    readers,
    \* main.py: the background task of lifespan that sweeps the registry
    sweeper

storeVars == <<now, SESSIONS, touched, store_ret, sweeper>>
pureVars  == <<call, ret>>
appVars   == <<session, ingest, chat, export>>
logVars   == <<log, readers>>
vars      == <<now, SESSIONS, touched, store_ret, call, ret, session, ingest, chat, export,
               log, readers, sweeper>>

None == "None"

Min(a, b) == IF a <= b THEN a ELSE b
Max(a, b) == IF a >= b THEN a ELSE b

(***************************************************************************)
(* Bounds of the model.                                                    *)
(***************************************************************************)
MaxTime   == 4    \* the clock runs 1..MaxTime
MaxTtl    == 2    \* ttl_seconds of a call ranges over 0..MaxTtl
MaxAnsLen == 3    \* tokens of an answer handed to the guardrail
MaxCtx    == 2    \* context_size handed to the guardrail ranges over 0..MaxCtx

SessionIds == {"s1", "s2"}

(***************************************************************************)
(* Text.  A text is a sequence of tokens: a run of whitespace, a piece of  *)
(* other text holding no citation, the sentence of STRICT_NO_MENTION, or   *)
(* a citation "[n]".                                                       *)
(***************************************************************************)
WS      == [k |-> "ws", n |-> 0]
TXT     == [k |-> "tx", n |-> 0]
NM      == [k |-> "nm", n |-> 0]
Cite(n) == [k |-> "c", n |-> n]

\* guardrails.py: STRICT_NO_MENTION
STRICT_NO_MENTION == <<NM>>

RECURSIVE LStrip(_)
LStrip(t) == IF t # <<>> /\ Head(t) = WS THEN LStrip(Tail(t)) ELSE t

RECURSIVE RStrip(_)
RStrip(t) ==
    IF t # <<>> /\ t[Len(t)] = WS THEN RStrip(SubSeq(t, 1, Len(t) - 1)) ELSE t

\* str.strip()
Strip(t) == RStrip(LStrip(t))

\* guardrails.py: the finditer loop of extract_citation_numbers
RECURSIVE CitationMatches(_)
CitationMatches(t) ==
    IF t = <<>> THEN <<>>
    ELSE IF Head(t).k = "c" THEN <<Head(t).n>> \o CitationMatches(Tail(t))
    ELSE CitationMatches(Tail(t))

\* guardrails.py: the "ordered unique" loop of extract_citation_numbers
RECURSIVE OrderedUnique(_, _)
OrderedUnique(nums, seen) ==
    IF nums = <<>> THEN <<>>
    ELSE IF Head(nums) \in seen THEN OrderedUnique(Tail(nums), seen)
    ELSE <<Head(nums)>> \o OrderedUnique(Tail(nums), seen \cup {Head(nums)})

extract_citation_numbers(text) == OrderedUnique(CitationMatches(text), {})

GuardrailResult(ok, answer, reason) == [ok |-> ok, answer |-> answer, reason |-> reason]

\* a plausible slip: the range check lets n = context_size + 1 through
enforce_off_by_one(answer, context_size, require_citations) ==
    LET raw  == Strip(answer)
        nums == extract_citation_numbers(raw)
    IN  IF raw = <<>> THEN GuardrailResult(FALSE, STRICT_NO_MENTION, "empty_answer")
        ELSE IF raw = STRICT_NO_MENTION THEN GuardrailResult(TRUE, raw, None)
        ELSE IF require_citations /\ nums = <<>>
            THEN GuardrailResult(FALSE, STRICT_NO_MENTION, "missing_citations")
        ELSE IF \E i \in 1..Len(nums) : nums[i] < 1 \/ nums[i] > context_size + 1
            THEN GuardrailResult(FALSE, STRICT_NO_MENTION, "out_of_range_citations")
        ELSE GuardrailResult(TRUE, raw, None)

\* guardrails.py: enforce_strict_rag_answer
enforce_strict_rag_answer(answer, context_size, require_citations) ==
    LET raw  == Strip(answer)
        nums == extract_citation_numbers(raw)
    IN  IF raw = <<>> THEN GuardrailResult(FALSE, STRICT_NO_MENTION, "empty_answer")
        ELSE IF raw = STRICT_NO_MENTION THEN GuardrailResult(TRUE, raw, None)
        ELSE IF require_citations /\ nums = <<>>
            THEN GuardrailResult(FALSE, STRICT_NO_MENTION, "missing_citations")
        ELSE IF \E i \in 1..Len(nums) : nums[i] < 1 \/ nums[i] > context_size
            THEN GuardrailResult(FALSE, STRICT_NO_MENTION, "out_of_range_citations")
        ELSE GuardrailResult(TRUE, raw, None)

(***************************************************************************)
(* Values of the variable groups a specification does not use.             *)
(***************************************************************************)
NoCall == [fn |-> "none"]
NoRet  == [ok |-> FALSE, answer |-> <<>>, reason |-> "pending"]
NoStoreRet == [op |-> "none", sid |-> None, ttl |-> 0, found |-> FALSE, count |-> 0]

EmptyMap == [x \in {} |-> 0]

NoSweeper == [pc |-> "none", waited |-> 0, shutdown_event |-> FALSE]

StoreIdle ==
    /\ now = 0 /\ SESSIONS = EmptyMap /\ touched = EmptyMap /\ store_ret = NoStoreRet
    /\ sweeper = NoSweeper
PureIdle  == call = NoCall /\ ret = NoRet

\* SessionState: log_seq, log_history (the sequence numbers it holds), log_event
NoLog == [seq |-> 0, history |-> <<>>, event |-> FALSE]

LogIdle == log = NoLog /\ readers = EmptyMap

(***************************************************************************)
(* The guardrail as a pure function: every answer of at most MaxAnsLen     *)
(* tokens, every context size, both settings of require_citations.        *)
(***************************************************************************)
CiteNums == 0..(MaxCtx + 1)
Tokens   == {WS, TXT, NM} \cup {Cite(n) : n \in CiteNums}
SeqsUpTo(S, n) == UNION {[1..m -> S] : m \in 0..n}
Answers  == SeqsUpTo(Tokens, MaxAnsLen)

EnforceCalls ==
    [fn : {"enforce"}, answer : Answers, context_size : 0..MaxCtx, require_citations : BOOLEAN]

\* test_guardrails.py / main.py: a call of enforce_strict_rag_answer
Enforce ==
    /\ call.fn = "enforce"
    /\ ret = NoRet
    /\ ret' = enforce_strict_rag_answer(call.answer, call.context_size, call.require_citations)
    /\ UNCHANGED <<call, storeVars, logVars, appVars>>

(***************************************************************************)
(* session_store.py                                                        *)
(***************************************************************************)
Ttls == 0..MaxTtl

\* SessionState(session_id=..): created_at, last_access_at default to time.time(), expires_at to 0.0
NewSessionState(t) == [created_at |-> t, last_access_at |-> t, expires_at |-> 0]

\* a plausible slip: the expiry is counted from the creation of the session
touch_from_creation(s, t, ttl_seconds) ==
    [s EXCEPT !.last_access_at = t, !.expires_at = s.created_at + ttl_seconds]

\* SessionState.touch
touch(s, t, ttl_seconds) ==
    [s EXCEPT !.last_access_at = t, !.expires_at = t + ttl_seconds]

\* a plausible slip: a session is expired only strictly after expires_at
is_expired_strict(s, t) == s.expires_at # 0 /\ s.expires_at < t

\* cleanup_expired_sessions: the filter `s.expires_at and s.expires_at <= now`
is_expired(s, t) == s.expires_at # 0 /\ s.expires_at <= t

\* dict.pop(sid, None)
Pop(reg, sid) == [x \in DOMAIN reg \ {sid} |-> reg[x]]

\* dict[sid] = s
Put(reg, sid, s) == [x \in DOMAIN reg \cup {sid} |-> IF x = sid THEN s ELSE reg[x]]

RECURSIVE PopAll(_, _)
PopAll(reg, sids) ==
    IF sids = {} THEN reg
    ELSE LET sid == CHOOSE x \in sids : TRUE IN PopAll(Pop(reg, sid), sids \ {sid})

StoreRet(op, sid, ttl, found, count) ==
    [op |-> op, sid |-> sid, ttl |-> ttl, found |-> found, count |-> count]

\* the clock advances between two calls
Tick ==
    /\ now < MaxTime
    /\ now' = now + 1
    /\ store_ret' = StoreRet("tick", None, 0, FALSE, 0)
    /\ UNCHANGED <<SESSIONS, touched, sweeper, pureVars, appVars, logVars>>

get_or_create_session(session_id, ttl_seconds) ==
    LET s == IF session_id \in DOMAIN SESSIONS THEN SESSIONS[session_id]
             ELSE NewSessionState(now)
    IN  /\ SESSIONS' = Put(SESSIONS, session_id, touch(s, now, ttl_seconds))
        /\ touched' = Put(touched, session_id,
                           [at |-> now, ttl |-> ttl_seconds, stale |-> is_expired(s, now)])
        /\ store_ret' = StoreRet("get_or_create", session_id, ttl_seconds, TRUE, 0)
        /\ UNCHANGED <<now, sweeper, pureVars, appVars, logVars>>

\* a plausible slip: a session past its expiry is treated as absent
get_session_unless_expired(session_id, ttl_seconds) ==
    /\ IF session_id \in DOMAIN SESSIONS /\ ~is_expired(SESSIONS[session_id], now)
       THEN /\ SESSIONS' = Put(SESSIONS, session_id,
                               touch(SESSIONS[session_id], now, ttl_seconds))
            /\ touched' = Put(touched, session_id,
                               [at |-> now, ttl |-> ttl_seconds, stale |-> FALSE])
            /\ store_ret' = StoreRet("get", session_id, ttl_seconds, TRUE, 0)
       ELSE /\ UNCHANGED <<SESSIONS, touched>>
            /\ store_ret' = StoreRet("get", session_id, ttl_seconds, FALSE, 0)
    /\ UNCHANGED <<now, sweeper, pureVars, appVars, logVars>>

get_session(session_id, ttl_seconds) ==
    /\ IF session_id \in DOMAIN SESSIONS
       THEN /\ SESSIONS' = Put(SESSIONS, session_id,
                               touch(SESSIONS[session_id], now, ttl_seconds))
            /\ touched' = Put(touched, session_id,
                               [at |-> now, ttl |-> ttl_seconds,
                                stale |-> is_expired(SESSIONS[session_id], now)])
            /\ store_ret' = StoreRet("get", session_id, ttl_seconds, TRUE, 0)
       ELSE /\ UNCHANGED <<SESSIONS, touched>>
            /\ store_ret' = StoreRet("get", session_id, ttl_seconds, FALSE, 0)
    /\ UNCHANGED <<now, sweeper, pureVars, appVars, logVars>>

delete_session(session_id) ==
    /\ SESSIONS' = Pop(SESSIONS, session_id)
    /\ touched' = Pop(touched, session_id)
    /\ store_ret' = StoreRet("delete", session_id, 0, FALSE, 0)
    /\ UNCHANGED <<now, sweeper, pureVars, appVars, logVars>>

cleanup_expired_sessions ==
    LET expired == {sid \in DOMAIN SESSIONS : is_expired(SESSIONS[sid], now)}
    IN  /\ SESSIONS' = PopAll(SESSIONS, expired)
        /\ touched' = PopAll(touched, expired)
        /\ store_ret' = StoreRet("cleanup", None, 0, FALSE, Cardinality(expired))
        /\ UNCHANGED <<now, pureVars, appVars, logVars>>

(***************************************************************************)
(* openrouter_client.py: the gateway client.  Every network method is      *)
(* wrapped by tenacity's @retry(stop=stop_after_attempt(3), wait=..); the  *)
(* decorator is given no reraise=True, so when the last attempt has failed *)
(* tenacity raises its own RetryError (an Exception that is no             *)
(* OpenRouterError) in place of the attempt's exception.                   *)
(***************************************************************************)
stop_after_attempt == 3

\* one attempt of a network method: it returns ("ok"), or it raises ("error":
\* OpenRouterError for a non-200 or malformed response, an httpx error for a timeout)
AttemptOutcomes == {"ok", "error"}
\* the runs of attempts of one call: k failing attempts, then successful ones (an
\* attempt after the first success is never made)
AttemptRuns ==
    {[i \in 1..stop_after_attempt |-> IF i <= k THEN "error" ELSE "ok"] :
        k \in 0..stop_after_attempt}

Returned(value, tries) == [kind |-> "value", value |-> value, tries |-> tries]
Raised(kind, value, tries) == [kind |-> kind, value |-> value, tries |-> tries]

\* @retry(stop=stop_after_attempt(3), ..) around a network method: attempts[i] is the
\* outcome the i-th attempt would have; value is what a successful attempt returns
RECURSIVE retry_from(_, _, _)
retry_from(i, attempts, value) ==
    IF attempts[i] = "ok" THEN Returned(value, i)
    ELSE IF i >= stop_after_attempt THEN Raised("RetryError", value, i)
    ELSE retry_from(i + 1, attempts, value)

retry(attempts, value) == retry_from(1, attempts, value)

(***************************************************************************)
(* main.py: documents, chunks, the session object.                         *)
(***************************************************************************)
MaxChunks == 2    \* chunks of the small document, and chunks of a document retrieval ranks
MaxTopK   == 2    \* top_k of a chat request: 1..MaxTopK (the API allows 1..10)

Uploads  == {"u1", "u2"}
Requests == {"r1", "r2"}

\* _ingest_file: batch_size = 32
batch_size == 32

\* widths an embeddings response may have (the first batch of a document has width 1)
Dims == {1, 2}

\* what FileParser.parse, Chunker.chunk and detect_dominant_language make of an
\* uploaded file: parsing raises, or the file yields n chunks in some language (the
\* large document needs two embedding batches)
Docs ==
    { [parse_ok |-> FALSE, n |-> 0, lang |-> "en"],
      [parse_ok |-> TRUE, n |-> 0, lang |-> "en"],
      [parse_ok |-> TRUE, n |-> MaxChunks, lang |-> "zh"],
      [parse_ok |-> TRUE, n |-> batch_size + 1, lang |-> "en"] }

\* ChunkModel: id = uuid4().hex, so a chunk is identified by its upload and its index
Chunk(u, i) == [doc |-> u, idx |-> i]
ChunkList(u, n) == [i \in 1..n |-> Chunk(u, i)]

NoRetriever == [built |-> FALSE, chunks |-> <<>>, doc_language |-> None, embedding_dim |-> 0]

\* HybridRetriever(embedding_dim=..).build(chunks=.., embeddings=..)
BuiltRetriever(chunks, dim, lang) ==
    [built |-> TRUE, chunks |-> chunks, doc_language |-> lang, embedding_dim |-> dim]

\* session_store.py: SessionState, the fields main.py reads and writes
\* (exists: the object is registered in SESSIONS)
NewSession ==
    [exists |-> FALSE, ingest_status |-> "idle", ingest_error |-> None, filename |-> None,
     doc_language |-> None, chunks |-> <<>>, retriever |-> NoRetriever,
     chat_history |-> <<>>, reference_ids |-> EmptyMap, references |-> <<>>]

\* session_store.py: ChatTurn
ChatTurn(role, content, citations) ==
    [role |-> role, content |-> content, citations |-> citations]

\* a plausible slip: the number is the 0-based position in the reference list
RECURSIVE register_references_zero_based(_, _)
register_references_zero_based(s, citations) ==
    IF citations = <<>> THEN s
    ELSE LET c == Head(citations) IN
         IF c \in DOMAIN s.reference_ids
         THEN register_references_zero_based(s, Tail(citations))
         ELSE register_references_zero_based(
                [s EXCEPT !.reference_ids = Put(s.reference_ids, c, Len(s.references)),
                          !.references = Append(s.references, c)],
                Tail(citations))

\* SessionState.register_references
RECURSIVE register_references(_, _)
register_references(s, citations) ==
    IF citations = <<>> THEN s
    ELSE LET c == Head(citations) IN
         IF c \in DOMAIN s.reference_ids THEN register_references(s, Tail(citations))
         ELSE register_references(
                [s EXCEPT !.reference_ids = Put(s.reference_ids, c, Len(s.references) + 1),
                          !.references = Append(s.references, c)],
                Tail(citations))

\* a plausible slip: the reset leaves ingest_status as it was
reset_document_keeps_status(s, filename) ==
    [s EXCEPT !.ingest_error = None, !.filename = filename,
              !.chunks = <<>>, !.retriever = NoRetriever, !.chat_history = <<>>,
              !.reference_ids = EmptyMap, !.references = <<>>]

\* _ingest_file: the first critical section (reset of the document state)
reset_document(s, filename) ==
    [s EXCEPT !.ingest_status = "processing", !.ingest_error = None, !.filename = filename,
              !.chunks = <<>>, !.retriever = NoRetriever, !.chat_history = <<>>,
              !.reference_ids = EmptyMap, !.references = <<>>]

\* _ingest_file: every `ingest_status = "error"; ingest_error = ..` critical section
ingest_failed(s, message) ==
    [s EXCEPT !.ingest_status = "error", !.ingest_error = message]

\* _ingest_file: the last critical section
attach_ready(s, chunks, retriever) ==
    [s EXCEPT !.chunks = chunks, !.retriever = retriever,
              !.doc_language = retriever.doc_language, !.ingest_status = "ready"]

(***************************************************************************)
(* main.py: upload and the background ingestion task _ingest_file.         *)
(***************************************************************************)
\* no export response is being sent
NoExport == [status |-> 0, turns |-> <<>>, refs |-> <<>>, blocks |-> <<>>, filename |-> None]

IngestTask(pc, doc, b, dim, crashed) ==
    [pc |-> pc, doc |-> doc, b |-> b, dim |-> dim, crashed |-> crashed]

NoDoc == [parse_ok |-> FALSE, n |-> 0, lang |-> None]
IdleTask == IngestTask("idle", NoDoc, 0, 0, FALSE)

\* an embeddings response for `len` inputs: the right shape in one of the widths,
\* one row too many, or a 1-D array
EmbeddingResponses(len, widths) ==
    {[ndim |-> 2, rows |-> len, dim |-> d] : d \in widths}
        \cup {[ndim |-> 2, rows |-> len + 1, dim |-> 1], [ndim |-> 1, rows |-> len, dim |-> 0]}

\* POST /upload
upload(u) ==
    /\ ingest[u].pc = "idle"
    /\ \E empty_file \in BOOLEAN :
        /\ session' = [session EXCEPT !.exists = TRUE]
        /\ ingest' = [ingest EXCEPT ![u] =
                        IF empty_file THEN IngestTask("rejected", NoDoc, 0, 0, FALSE)
                        ELSE IngestTask("scheduled", NoDoc, 0, 0, FALSE)]
    /\ export' = NoExport
    /\ UNCHANGED <<chat, storeVars, logVars, pureVars>>

\* _ingest_file, from its start to the first embeddings call
ingest_start(u) ==
    /\ ingest[u].pc = "scheduled"
    /\ \E doc \in Docs :
        LET s1 == reset_document(session, u) IN
        IF ~doc.parse_ok
        THEN /\ session' = ingest_failed(s1, "parse error")
             /\ ingest' = [ingest EXCEPT ![u] = IngestTask("done", NoDoc, 0, 0, FALSE)]
        ELSE IF doc.n = 0
        THEN /\ session' = ingest_failed(s1, "No chunks created from document")
             /\ ingest' = [ingest EXCEPT ![u] = IngestTask("done", NoDoc, 0, 0, FALSE)]
        ELSE /\ session' = s1
             /\ ingest' = [ingest EXCEPT ![u] = IngestTask("embedding", doc, 0, 0, FALSE)]
    /\ export' = NoExport
    /\ UNCHANGED <<chat, storeVars, logVars, pureVars>>

\* _ingest_file, from the return of the embeddings call of batch b to the next
\* embeddings call or to the end of the task
ingest_embeddings_return(u) ==
    /\ ingest[u].pc = "embedding"
    /\ LET t             == ingest[u]
           chunks        == ChunkList(u, t.doc.n)
           total_batches == (t.doc.n + batch_size - 1) \div batch_size
           start         == t.b * batch_size
           end           == Min(t.doc.n, (t.b + 1) * batch_size)
           done(crashed) == [ingest EXCEPT ![u] = IngestTask("done", NoDoc, 0, 0, crashed)]
       IN  \E attempts \in AttemptRuns, embs \in EmbeddingResponses(end - start, IF t.b = 0 THEN {1} ELSE Dims) :
             LET out == retry(attempts, embs) IN
             IF out.kind = "OpenRouterError"
             THEN /\ session' = ingest_failed(session, "gateway error")
                  /\ ingest' = done(FALSE)
             ELSE IF out.kind # "value"
             THEN \* no handler of the task catches it: the task ends with the exception
                  /\ session' = session
                  /\ ingest' = done(TRUE)
             ELSE IF embs.ndim # 2 \/ embs.rows # end - start
             THEN /\ session' = ingest_failed(session, "Unexpected embeddings shape")
                  /\ ingest' = done(FALSE)
             ELSE IF t.dim # 0 /\ embs.dim # t.dim
             THEN /\ session' = ingest_failed(session, "Inconsistent embedding dim across batches")
                  /\ ingest' = done(FALSE)
             ELSE IF t.b + 1 < total_batches
             THEN /\ session' = session
                  /\ ingest' = [ingest EXCEPT ![u] =
                                  IngestTask("embedding", t.doc, t.b + 1, embs.dim, FALSE)]
             ELSE \E build_ok \in BOOLEAN :
                    /\ session' = IF build_ok
                                  THEN attach_ready(session, chunks,
                                                    BuiltRetriever(chunks, embs.dim, t.doc.lang))
                                  ELSE ingest_failed(session, "index build error")
                    /\ ingest' = done(FALSE)
    /\ export' = NoExport
    /\ UNCHANGED <<chat, storeVars, logVars, pureVars>>

(***************************************************************************)
(* main.py: POST /chat.                                                    *)
(***************************************************************************)
\* config.py: Settings defaults
query_fusion_enabled == TRUE
hyde_enabled         == TRUE
llm_rerank_enabled   == TRUE

TopKs == 1..MaxTopK

\* the texts a chat completion may carry in choices[0].message.content
ModelContents ==
    { <<>>, <<WS>>, <<WS, NM>>, <<TXT>>, <<TXT, Cite(1)>>, <<Cite(1), Cite(2)>>,
      <<Cite(2), TXT, Cite(2)>>, <<Cite(0), Cite(1)>>, <<TXT, Cite(MaxChunks + 1)>> }

\* req.message.strip() of request r, a text of its own
user_query(r) == <<[k |-> r, n |-> 0]>>

ChatRequest(pc) ==
    [pc |-> pc, top_k |-> 0, retriever |-> NoRetriever, candidates |-> <<>>,
     retrieved |-> <<>>, context |-> <<>>, answer |-> <<>>, citations |-> <<>>,
     status |-> 0, detail |-> None, first |-> FALSE, failed |-> None,
     \* the upload whose document the session held when the request was admitted
     admitted |-> None]

\* raise HTTPException(status_code=.., detail=..); an exception no handler catches
\* is answered by the framework with 500
http_error(req, status, detail) ==
    [req EXCEPT !.pc = "done", !.status = status, !.detail = detail]

unhandled(req) == http_error(req, 500, "Internal Server Error")

\* the gateway call the request was suspended in has raised: `failed` keeps which
gateway_failure(req) == [req EXCEPT !.failed = req.pc]

\* the request suspends in a call of the gateway client (pc names the method)
gateway_call(req, pc) == [req EXCEPT !.pc = pc]

\* the request is suspended in a call of the gateway client
GatewayPcs == {"translate", "variants", "hyde", "embed", "rerank", "answer", "retry"}

\* the sequences of distinct elements of S, of length lo..hi
DistinctSeqs(S, lo, hi) ==
    {q \in UNION {[1..m -> S] : m \in lo..hi} :
        \A i, j \in 1..Len(q) : i # j => q[i] # q[j]}

\* the chunks retrieval ranks in the model: the first MaxChunks chunks of the document
RetrievalPool(retriever) ==
    {retriever.chunks[i] : i \in 1..Min(Len(retriever.chunks), MaxChunks)}

\* chat: the fused candidate list (retriever.search per query, rrf_fuse, the fallback
\* search): a non-empty list of distinct chunks of the retriever
CandidateLists(retriever) ==
    DistinctSeqs(RetrievalPool(retriever), 1, Cardinality(RetrievalPool(retriever)))

SeqRange(q) == {q[i] : i \in 1..Len(q)}

\* chat: the two loops that reorder candidate_chunks by ranked_ids
RECURSIVE ranked_first(_, _, _)
ranked_first(ranked_ids, pool, seen) ==
    IF ranked_ids = <<>> THEN <<>>
    ELSE IF Head(ranked_ids) \notin pool \/ Head(ranked_ids) \in seen
         THEN ranked_first(Tail(ranked_ids), pool, seen)
    ELSE <<Head(ranked_ids)>> \o ranked_first(Tail(ranked_ids), pool, seen \cup {Head(ranked_ids)})

reranked(candidate_chunks, ranked_ids) ==
    LET ordered == ranked_first(ranked_ids, SeqRange(candidate_chunks), {})
    IN  ordered \o SelectSeq(candidate_chunks, LAMBDA ch : ch \notin SeqRange(ordered))

\* a plausible slip: the half-open slice taken one too long
final_selection_one_more(candidate_chunks, top_k) ==
    SubSeq(candidate_chunks, 1, Min(top_k + 1, Len(candidate_chunks)))

\* chat: retrieved_chunks = candidate_chunks[: req.top_k]
final_selection(candidate_chunks, top_k) ==
    SubSeq(candidate_chunks, 1, Min(top_k, Len(candidate_chunks)))

\* _build_context_blocks: block i is "[i] .. CHUNK: <chunks[i-1]> .."
build_context_blocks(chunks) == [i \in 1..Len(chunks) |-> [n |-> i, chunk |-> chunks[i]]]

\* chat: citations_payload = [c.model_dump() for c in retrieved_chunks]
citations_payload(retrieved_chunks) == retrieved_chunks

\* chat: the loop that resolves cited_nums to cited_models
RECURSIVE cited_models(_, _)
cited_models(cited_nums, retrieved_chunks) ==
    IF cited_nums = <<>> THEN <<>>
    ELSE LET idx == Head(cited_nums) - 1 IN
         IF 0 <= idx /\ idx < Len(retrieved_chunks)
         THEN <<retrieved_chunks[idx + 1]>> \o cited_models(Tail(cited_nums), retrieved_chunks)
         ELSE cited_models(Tail(cited_nums), retrieved_chunks)

\* a plausible slip: the history is replaced by the new pair
record_turn_replaces_history(s, r, answer, retrieved_chunks) ==
    register_references(
        [s EXCEPT !.chat_history =
            <<ChatTurn("user", user_query(r), <<>>),
              ChatTurn("assistant", answer, retrieved_chunks)>>],
        cited_models(extract_citation_numbers(answer), retrieved_chunks))

\* a plausible slip: the assistant turn is appended before the user turn
record_turn_answer_first(s, r, answer, retrieved_chunks) ==
    register_references(
        [s EXCEPT !.chat_history =
            Append(Append(@, ChatTurn("assistant", answer, retrieved_chunks)),
                   ChatTurn("user", user_query(r), <<>>))],
        cited_models(extract_citation_numbers(answer), retrieved_chunks))

\* chat: the last critical section
record_turn(s, r, answer, retrieved_chunks) ==
    register_references(
        [s EXCEPT !.chat_history =
            Append(Append(@, ChatTurn("user", user_query(r), <<>>)),
                   ChatTurn("assistant", answer, retrieved_chunks))],
        cited_models(extract_citation_numbers(answer), retrieved_chunks))

\* chat: from the final answer to the response
respond(r, answer) ==
    /\ session' = record_turn(session, r, answer, chat[r].retrieved)
    /\ chat' = [chat EXCEPT ![r] =
                  [@ EXCEPT !.pc = "done", !.status = 200, !.detail = "OK", !.answer = answer,
                            !.citations = citations_payload(chat[r].retrieved)]]

\* a plausible slip: only the retriever is looked at
no_active_document_retriever_only(s) == ~s.retriever.built

\* chat: `session.ingest_status != "ready" or session.retriever is None`
no_active_document(s) == s.ingest_status # "ready" \/ ~s.retriever.built

\* chat, from its start to the translation call
chat_start(r) ==
    /\ chat[r].pc = "new"
    /\ \E empty_message \in BOOLEAN :
         LET req == chat[r] IN
         chat' = [chat EXCEPT ![r] =
            IF ~session.exists THEN http_error(req, 404, "Unknown session")
            ELSE IF no_active_document(session)
                 THEN http_error(req, 400, "No active document")
            ELSE IF empty_message THEN http_error(req, 400, "Empty message")
            ELSE gateway_call([req EXCEPT !.retriever = session.retriever,
                                          !.admitted = session.filename], "translate")]
    /\ export' = NoExport
    /\ UNCHANGED <<session, ingest, storeVars, logVars, pureVars>>

\* chat, from the return of translate_query_for_doc_language to the next call
chat_translate_return(r) ==
    /\ chat[r].pc = "translate"
    /\ \E attempts \in AttemptRuns :
         LET out == retry(attempts, <<TXT>>) IN
         chat' = [chat EXCEPT ![r] =
            IF out.kind = "OpenRouterError"
            THEN http_error(gateway_failure(@), 502, "OpenRouter translate error")
            ELSE IF out.kind # "value" THEN unhandled(gateway_failure(@))
            ELSE IF query_fusion_enabled THEN gateway_call(@, "variants")
            ELSE gateway_call(@, "embed")]
    /\ export' = NoExport
    /\ UNCHANGED <<session, ingest, storeVars, logVars, pureVars>>

\* chat, from the return of generate_query_variants to the next call
chat_variants_return(r) ==
    /\ chat[r].pc = "variants"
    /\ \E attempts \in AttemptRuns :
         LET out == retry(attempts, <<TXT>>) IN
         chat' = [chat EXCEPT ![r] =
            IF out.kind # "value" /\ out.kind # "OpenRouterError"
            THEN unhandled(gateway_failure(@))
            ELSE IF hyde_enabled THEN gateway_call(@, "hyde")
            ELSE gateway_call(@, "embed")]
    /\ export' = NoExport
    /\ UNCHANGED <<session, ingest, storeVars, logVars, pureVars>>

\* chat, from the return of generate_hyde_passage to the embeddings call
chat_hyde_return(r) ==
    /\ chat[r].pc = "hyde"
    /\ \E attempts \in AttemptRuns :
         LET out == retry(attempts, <<TXT>>) IN
         chat' = [chat EXCEPT ![r] =
            IF out.kind # "value" /\ out.kind # "OpenRouterError"
            THEN unhandled(gateway_failure(@))
            ELSE gateway_call(@, "embed")]
    /\ export' = NoExport
    /\ UNCHANGED <<session, ingest, storeVars, logVars, pureVars>>

\* chat, from the return of the query embeddings call, through retrieval and fusion,
\* to the rerank call
chat_embed_return(r) ==
    /\ chat[r].pc = "embed"
    /\ \E attempts \in AttemptRuns, q_embs \in EmbeddingResponses(1, Dims),
          candidate_chunks \in CandidateLists(chat[r].retriever) :
         LET out == retry(attempts, q_embs) IN
         chat' = [chat EXCEPT ![r] =
            IF out.kind = "OpenRouterError"
            THEN http_error(gateway_failure(@), 502, "OpenRouter embedding error")
            ELSE IF out.kind # "value" THEN unhandled(gateway_failure(@))
            ELSE IF q_embs.ndim # 2 \/ q_embs.rows # 1
                 THEN http_error(@, 500, "Unexpected embedding response shape")
            ELSE IF q_embs.dim # @.retriever.embedding_dim
                 THEN unhandled(@)    \* retriever.search raises ValueError
            ELSE IF llm_rerank_enabled
                 THEN gateway_call([@ EXCEPT !.candidates = candidate_chunks], "rerank")
            ELSE [@ EXCEPT !.candidates = candidate_chunks, !.pc = "select"]]
    /\ export' = NoExport
    /\ UNCHANGED <<session, ingest, storeVars, logVars, pureVars>>

\* chat, from the return of rerank_passages_yesno (or from the fused list when
\* reranking is off), through the final selection and the token budget, to the
\* first answer completion
chat_select(r) ==
    /\ chat[r].pc \in {"rerank", "select"}
    /\ \E attempts \in AttemptRuns,
          ranked_ids \in DistinctSeqs(SeqRange(chat[r].candidates), 0, Len(chat[r].candidates)),
          top_k \in TopKs, over_budget \in BOOLEAN :
         LET out == IF chat[r].pc = "rerank" THEN retry(attempts, ranked_ids)
                    ELSE Raised("OpenRouterError", <<>>, 0)
             candidate_chunks ==
                 IF out.kind = "value" THEN reranked(chat[r].candidates, ranked_ids)
                 ELSE chat[r].candidates
             retrieved_chunks == final_selection(candidate_chunks, top_k)
         IN
         chat' = [chat EXCEPT ![r] =
            IF out.kind # "value" /\ out.kind # "OpenRouterError"
            THEN unhandled(gateway_failure(@))
            ELSE IF over_budget THEN http_error(@, 400, "Session limit reached")
            ELSE gateway_call([@ EXCEPT !.candidates = <<>>, !.top_k = top_k,
                                        !.retrieved = retrieved_chunks,
                                        !.context = build_context_blocks(retrieved_chunks)],
                              "answer")]
    /\ export' = NoExport
    /\ UNCHANGED <<session, ingest, storeVars, logVars, pureVars>>

\* OpenRouterClient.chat_completion returns content.strip()
completion(content) == Strip(content)

\* chat, from the return of the first answer completion to the response or to the
\* retry completion
chat_answer_return(r) ==
    /\ chat[r].pc = "answer"
    /\ \E attempts \in AttemptRuns, content \in ModelContents :
         LET out == retry(attempts, completion(content))
             gr  == enforce_strict_rag_answer(out.value, Len(chat[r].retrieved), TRUE)
         IN
         IF out.kind = "OpenRouterError"
         THEN /\ chat' = [chat EXCEPT ![r] =
                            http_error(gateway_failure(@), 502, "OpenRouter chat error")]
              /\ session' = session
         ELSE IF out.kind # "value"
         THEN /\ chat' = [chat EXCEPT ![r] = unhandled(gateway_failure(@))]
              /\ session' = session
         ELSE IF ~gr.ok
         THEN /\ chat' = [chat EXCEPT ![r] =
                            gateway_call([@ EXCEPT !.first = TRUE], "retry")]
              /\ session' = session
         ELSE /\ session' = record_turn(session, r, gr.answer, chat[r].retrieved)
              /\ chat' = [chat EXCEPT ![r] =
                            [@ EXCEPT !.pc = "done", !.status = 200, !.detail = "OK",
                                      !.first = TRUE, !.answer = gr.answer,
                                      !.citations = citations_payload(chat[r].retrieved)]]
    /\ export' = NoExport
    /\ UNCHANGED <<ingest, storeVars, logVars, pureVars>>

\* chat, from the return of the retry completion to the response
chat_retry_return(r) ==
    /\ chat[r].pc = "retry"
    /\ \E attempts \in AttemptRuns, content \in ModelContents :
         LET out == retry(attempts, completion(content))
             gr2 == enforce_strict_rag_answer(out.value, Len(chat[r].retrieved), TRUE)
         IN
         IF out.kind = "OpenRouterError" THEN respond(r, STRICT_NO_MENTION)
         ELSE IF out.kind # "value"
         THEN /\ chat' = [chat EXCEPT ![r] = unhandled(gateway_failure(@))]
              /\ session' = session
         ELSE IF ~gr2.ok THEN respond(r, STRICT_NO_MENTION)
         ELSE respond(r, gr2.answer)
    /\ export' = NoExport
    /\ UNCHANGED <<ingest, storeVars, logVars, pureVars>>

(***************************************************************************)
(* main.py: GET /export/{session_id}.                                      *)
(***************************************************************************)

\* a plausible slip: n is used as a 0-based index into local_citations
repl_zero_based(token, local_citations, global_map) ==
    IF token.k # "c" THEN token
    ELSE LET idx == token.n IN
         IF idx < 0 \/ idx >= Len(local_citations) THEN token
         ELSE IF local_citations[idx + 1] \notin DOMAIN global_map THEN token
         ELSE Cite(global_map[local_citations[idx + 1]])

\* _rewrite_local_citations_to_global: repl, applied by re.sub to every "[n]"
repl(token, local_citations, global_map) ==
    IF token.k # "c" THEN token
    ELSE LET idx == token.n - 1 IN
         IF idx < 0 \/ idx >= Len(local_citations) THEN token
         ELSE IF local_citations[idx + 1] \notin DOMAIN global_map THEN token
         ELSE Cite(global_map[local_citations[idx + 1]])

_rewrite_local_citations_to_global(answer, local_citations, global_map) ==
    [i \in 1..Len(answer) |-> repl(answer[i], local_citations, global_map)]

\* export_markdown: the "### User" / "### Assistant" block of a turn
export_block(t, ref_map) ==
    IF t.role = "assistant"
    THEN [role |-> t.role,
          content |-> Strip(_rewrite_local_citations_to_global(t.content, t.citations, ref_map))]
    ELSE [role |-> t.role, content |-> Strip(t.content)]

export_markdown ==
    /\ export' =
         IF ~session.exists THEN [NoExport EXCEPT !.status = 404]
         ELSE [status   |-> 200,
               turns    |-> session.chat_history,
               refs     |-> session.references,
               blocks   |-> [i \in 1..Len(session.chat_history) |->
                               export_block(session.chat_history[i], session.reference_ids)],
               filename |-> IF session.filename = None THEN "document" ELSE session.filename]
    /\ UNCHANGED <<session, ingest, chat, storeVars, logVars, pureVars>>

(***************************************************************************)
(* The specifications.                                                     *)
(***************************************************************************)
AppIdle ==
    /\ session = NewSession
    /\ ingest = [u \in Uploads |-> IdleTask]
    /\ chat = [r \in Requests |-> ChatRequest("new")]
    /\ export = NoExport

\* the workloads of a run: two uploads and one chat request, or one upload and two
\* chat requests ("off": never made in this run)
AppInit ==
    /\ session = NewSession
    /\ export = NoExport
    /\ \/ /\ ingest = [u \in Uploads |-> IdleTask]
          /\ chat = [r \in Requests |-> ChatRequest(IF r = "r1" THEN "new" ELSE "off")]
       \/ /\ ingest = [u \in Uploads |->
                         IF u = "u1" THEN IdleTask ELSE IngestTask("off", NoDoc, 0, 0, FALSE)]
          /\ chat = [r \in Requests |-> ChatRequest("new")]

\* the backend: uploads, ingestion tasks, chat requests and exports on one session
Init == AppInit /\ StoreIdle /\ PureIdle /\ LogIdle

Next ==
    \/ \E u \in Uploads : upload(u)
    \/ \E u \in Uploads : ingest_start(u)
    \/ \E u \in Uploads : ingest_embeddings_return(u)
    \/ \E r \in Requests : chat_start(r)
    \/ \E r \in Requests : chat_translate_return(r)
    \/ \E r \in Requests : chat_variants_return(r)
    \/ \E r \in Requests : chat_hyde_return(r)
    \/ \E r \in Requests : chat_embed_return(r)
    \/ \E r \in Requests : chat_select(r)
    \/ \E r \in Requests : chat_answer_return(r)
    \/ \E r \in Requests : chat_retry_return(r)
    \/ export_markdown

Spec == Init /\ [][Next]_vars

\* the session store under get_or_create, get, delete, cleanup and the clock
StoreInit ==
    /\ now = 1
    /\ SESSIONS = EmptyMap
    /\ touched = EmptyMap
    /\ store_ret = NoStoreRet
    /\ sweeper = NoSweeper
    /\ AppIdle /\ PureIdle /\ LogIdle

StoreNext ==
    \/ Tick
    \/ \E sid \in SessionIds, ttl \in Ttls : get_or_create_session(sid, ttl)
    \/ \E sid \in SessionIds, ttl \in Ttls : get_session(sid, ttl)
    \/ \E sid \in SessionIds : delete_session(sid)
    \/ cleanup_expired_sessions /\ UNCHANGED sweeper

SpecStore == StoreInit /\ [][StoreNext]_vars

\* the guardrail applied to one answer
GuardInit == call \in EnforceCalls /\ ret = NoRet /\ AppIdle /\ StoreIdle /\ LogIdle

GuardNext == Enforce

SpecGuard == GuardInit /\ [][GuardNext]_vars

\* register_references called with any citation list, between document resets
MaxRefChunks == 3    \* chunks that may be cited
MaxCited     == 2    \* citations handed to one call

RefChunks == {Chunk("u1", i) : i \in 1..MaxRefChunks}

RegisterReferences ==
    /\ \E citations \in SeqsUpTo(RefChunks, MaxCited) :
         /\ session' = register_references(session, citations)
         /\ call' = [fn |-> "register", citations |-> citations]
    /\ UNCHANGED <<ret, ingest, chat, export, storeVars, logVars>>

ResetReferences ==
    /\ session' = reset_document(session, "u1")
    /\ call' = [fn |-> "reset", citations |-> <<>>]
    /\ UNCHANGED <<ret, ingest, chat, export, storeVars, logVars>>

RefsInit ==
    /\ session = [NewSession EXCEPT !.exists = TRUE]
    /\ ingest = [u \in Uploads |-> IdleTask]
    /\ chat = [r \in Requests |-> ChatRequest("new")]
    /\ export = NoExport
    /\ call = [fn |-> "none", citations |-> <<>>]
    /\ ret = NoRet
    /\ StoreIdle /\ LogIdle

RefsNext == RegisterReferences \/ ResetReferences

SpecRefs == RefsInit /\ [][RefsNext]_vars

(***************************************************************************)
(* The log stream: SessionState.log and the event generator of GET         *)
(* /api/logs.  A reader runs from one suspension to the next: it suspends  *)
(* at every yield (the response sends the event to the client) and in the  *)
(* timed wait for log_event.  A log entry is its sequence number.          *)
(***************************************************************************)
log_history_maxlen == 2    \* deque(maxlen=2000), scaled down
MaxLogLines        == 4    \* lines logged in a run

Readers == {"A", "B"}

\* SessionState.log
session_log_append(lg) ==
    LET seq == lg.seq + 1
        h   == Append(lg.history, seq)
    IN  [seq |-> seq,
         history |-> IF Len(h) > log_history_maxlen THEN Tail(h) ELSE h,
         event |-> TRUE]

\* event_generator: last_seq, the rest of the snapshot `history` still to be looped
\* over, and (for the properties) the entries yielded so far
Reader(pc, last_seq, pending, emitted) ==
    [pc |-> pc, last_seq |-> last_seq, pending |-> pending, emitted |-> emitted]

NoReader == Reader("off", 0, <<>>, <<>>)

\* `if seq <= last_seq: continue`
RECURSIVE skip_seen(_, _)
skip_seen(history, last_seq) ==
    IF history = <<>> \/ Head(history) > last_seq THEN history
    ELSE skip_seen(Tail(history), last_seq)

\* a plausible slip: the snapshot taken on wake is replayed whole
wake_replays_all(rd, lg) ==
    LET lg2 == [lg EXCEPT !.event = FALSE]
        history == lg.history
    IN  IF history = <<>> THEN <<[rd EXCEPT !.pc = "blocked", !.pending = <<>>], lg2>>
        ELSE <<[rd EXCEPT !.pc = "emit", !.last_seq = Head(history),
                          !.pending = Tail(history),
                          !.emitted = Append(@, Head(history))], lg2>>

\* event_generator: log_event.wait() has returned; from clear() to the next yield, or
\* to the wait again when the snapshot holds nothing new
wake(rd, lg) ==
    LET lg2 == [lg EXCEPT !.event = FALSE]
        history == lg.history
        earliest_seq == IF history # <<>> THEN Head(history) ELSE 0
        last_seq == IF earliest_seq # 0 /\ earliest_seq > rd.last_seq
                    THEN earliest_seq - 1 ELSE rd.last_seq
        rest == skip_seen(history, last_seq)
    IN  IF rest = <<>>
        THEN <<[rd EXCEPT !.pc = "blocked", !.last_seq = last_seq, !.pending = <<>>], lg2>>
        ELSE <<[rd EXCEPT !.pc = "emit", !.last_seq = Head(rest), !.pending = Tail(rest),
                          !.emitted = Append(@, Head(rest))], lg2>>

\* event_generator: the reader reaches `await wait_for(log_event.wait(), 15.0)`; a set
\* event lets it through at once
enter_wait(rd, lg) ==
    IF lg.event THEN wake(rd, lg)
    ELSE <<[rd EXCEPT !.pc = "blocked", !.pending = <<>>], lg>>

\* any task of the session logs a line; the waiters of log_event are woken
session_log ==
    /\ log.seq < MaxLogLines
    /\ log' = session_log_append(log)
    /\ readers' = [rd \in DOMAIN readers |->
                     IF readers[rd].pc = "blocked" THEN [readers[rd] EXCEPT !.pc = "woken"]
                     ELSE readers[rd]]
    /\ UNCHANGED <<storeVars, pureVars, appVars>>

\* GET /api/logs: the generator starts, snapshots the buffer and yields its first entry
logs_connect(rd) ==
    /\ readers[rd].pc = "off"
    /\ LET history == log.history
           out == IF history = <<>> THEN enter_wait(readers[rd], log)
                  ELSE <<Reader("replay", Max(0, Head(history)), Tail(history),
                                <<Head(history)>>), log>>
       IN  readers' = [readers EXCEPT ![rd] = out[1]] /\ log' = out[2]
    /\ UNCHANGED <<storeVars, pureVars, appVars>>

\* the generator is resumed after a yield of the initial replay
reader_replay_next(rd) ==
    /\ readers[rd].pc = "replay"
    /\ LET r == readers[rd]
           out == IF r.pending = <<>> THEN enter_wait(r, log)
                  ELSE <<[r EXCEPT !.last_seq = Max(@, Head(r.pending)),
                                   !.pending = Tail(r.pending),
                                   !.emitted = Append(@, Head(r.pending))], log>>
       IN  readers' = [readers EXCEPT ![rd] = out[1]] /\ log' = out[2]
    /\ UNCHANGED <<storeVars, pureVars, appVars>>

\* the generator is resumed after a yield of the streaming loop
reader_emit_next(rd) ==
    /\ readers[rd].pc = "emit"
    /\ LET r == readers[rd]
           rest == skip_seen(r.pending, r.last_seq)
           out == IF rest = <<>> THEN enter_wait(r, log)
                  ELSE <<[r EXCEPT !.last_seq = Head(rest), !.pending = Tail(rest),
                                   !.emitted = Append(@, Head(rest))], log>>
       IN  readers' = [readers EXCEPT ![rd] = out[1]] /\ log' = out[2]
    /\ UNCHANGED <<storeVars, pureVars, appVars>>

\* a woken waiter runs
reader_wake(rd) ==
    /\ readers[rd].pc = "woken"
    /\ LET out == wake(readers[rd], log)
       IN  readers' = [readers EXCEPT ![rd] = out[1]] /\ log' = out[2]
    /\ UNCHANGED <<storeVars, pureVars, appVars>>

\* the wait times out: the generator yields a ping
reader_timeout(rd) ==
    /\ readers[rd].pc = "blocked"
    /\ readers' = [readers EXCEPT ![rd].pc = "ping"]
    /\ UNCHANGED <<log, storeVars, pureVars, appVars>>

\* the generator is resumed after the ping and waits again
reader_ping_next(rd) ==
    /\ readers[rd].pc = "ping"
    /\ LET out == enter_wait(readers[rd], log)
       IN  readers' = [readers EXCEPT ![rd] = out[1]] /\ log' = out[2]
    /\ UNCHANGED <<storeVars, pureVars, appVars>>

LogsInit ==
    /\ log = NoLog
    /\ readers = [rd \in Readers |-> NoReader]
    /\ AppIdle /\ StoreIdle /\ PureIdle

LogsNext ==
    \/ session_log
    \/ \E rd \in Readers : logs_connect(rd)
    \/ \E rd \in Readers : reader_replay_next(rd)
    \/ \E rd \in Readers : reader_emit_next(rd)
    \/ \E rd \in Readers : reader_wake(rd)
    \/ \E rd \in Readers : reader_timeout(rd)
    \/ \E rd \in Readers : reader_ping_next(rd)

SpecLogs == LogsInit /\ [][LogsNext]_vars

(***************************************************************************)
(* One call of a network method of the gateway client under its retry      *)
(* decorator, for every run of attempt outcomes.                           *)
(***************************************************************************)
RetryCalls ==
    [fn : {"retry"}, method : {"chat_completion"},
     attempts : [1..stop_after_attempt -> AttemptOutcomes], value : ModelContents]
        \cup [fn : {"retry"}, method : {"embeddings"},
              attempts : [1..stop_after_attempt -> AttemptOutcomes],
              value : EmbeddingResponses(1, Dims)]

\* the call is made and ends
gateway_call_ends ==
    /\ call.fn = "retry"
    /\ ret = NoRet
    /\ ret' = retry(call.attempts, call.value)
    /\ UNCHANGED <<call, storeVars, appVars, logVars>>

RetryInit == call \in RetryCalls /\ ret = NoRet /\ AppIdle /\ StoreIdle /\ LogIdle

RetryNext == gateway_call_ends

SpecRetry == RetryInit /\ [][RetryNext]_vars

(***************************************************************************)
(* retrieval/fusion.py: reciprocal rank fusion.  A score is kept exactly:  *)
(* the sum of the 1/(k + idx) is scaled by the product of all k + idx.     *)
(* Ids are chunk ids, which are never empty.                               *)
(***************************************************************************)
MaxRankings == 2    \* rankings handed to one call
MaxRankLen  == 3    \* ids of one ranking

\* the doc ids, in string order
DocIds == <<"a", "b", "c", "d">>
IdIndex(doc_id) == CHOOSE i \in 1..Len(DocIds) : DocIds[i] = doc_id

RECURSIVE ScoreScale(_, _)
ScoreScale(k, n) == IF n = 0 THEN 1 ELSE (k + n) * ScoreScale(k, n - 1)

\* 1.0 / (k + idx), scaled
reciprocal(k, idx) == ScoreScale(k, MaxRankLen) \div (k + idx)

\* a plausible slip: only the best position of an id counts
RECURSIVE rrf_score_best_only(_, _, _)
rrf_score_best_only(rankings, k, doc_id) ==
    IF rankings = <<>> THEN 0
    ELSE LET r == Head(rankings)
             at == {idx \in 1..Len(r) : r[idx] = doc_id}
             here == IF at = {} THEN 0
                     ELSE reciprocal(k, CHOOSE idx \in at : \A j \in at : idx <= j)
         IN  Max(here, rrf_score_best_only(Tail(rankings), k, doc_id))

\* rrf_fuse: scores[doc_id] after the two loops
RECURSIVE rrf_score(_, _, _)
rrf_score(rankings, k, doc_id) ==
    IF rankings = <<>> THEN 0
    ELSE LET r == Head(rankings)
             here[idx \in 0..Len(r)] ==
                 IF idx = 0 THEN 0
                 ELSE here[idx - 1] + (IF r[idx] = doc_id THEN reciprocal(k, idx) ELSE 0)
         IN  here[Len(r)] + rrf_score(Tail(rankings), k, doc_id)

\* a plausible slip: the smallest position of the id over all the rankings
first_rank_smallest(rankings, doc_id) ==
    LET at == {idx \in 1..MaxRankLen :
                  \E i \in 1..Len(rankings) : idx <= Len(rankings[i]) /\ rankings[i][idx] = doc_id}
    IN  CHOOSE idx \in at : \A j \in at : idx <= j

\* rrf_fuse: first_rank[doc_id], the position of the id where the loops meet it first
RECURSIVE first_rank(_, _)
first_rank(rankings, doc_id) ==
    LET r == Head(rankings)
        at == {idx \in 1..Len(r) : r[idx] = doc_id}
    IN  IF at = {} THEN first_rank(Tail(rankings), doc_id)
        ELSE CHOOSE idx \in at : \A j \in at : idx <= j

\* sorted(scores.items(), key=(-score, first_rank, doc_id))
RECURSIVE sorted_ids(_, _, _)
sorted_ids(ids, rankings, k) ==
    IF ids = {} THEN <<>>
    ELSE LET before(x, y) ==
                 LET sx == rrf_score(rankings, k, x)   sy == rrf_score(rankings, k, y)
                     fx == first_rank(rankings, x)     fy == first_rank(rankings, y)
                 IN  \/ sx > sy
                     \/ sx = sy /\ fx < fy
                     \/ sx = sy /\ fx = fy /\ IdIndex(x) <= IdIndex(y)
             top == CHOOSE x \in ids : \A y \in ids : before(x, y)
         IN  <<top>> \o sorted_ids(ids \ {top}, rankings, k)

\* max_results is <<>> for None and <<n>> for the integer n
rrf_fuse(rankings, k, max_results) ==
    IF k < 1 THEN Raised("ValueError", <<>>, 0)
    ELSE IF rankings = <<>> THEN Returned(<<>>, 0)
    ELSE LET ids == UNION {{r[idx] : idx \in 1..Len(r)} :
                              r \in {rankings[i] : i \in 1..Len(rankings)}}
             fused == sorted_ids(ids, rankings, k)
         IN  IF max_results # <<>>
             THEN Returned(SubSeq(fused, 1, Min(Len(fused), Max(0, max_results[1]))), 0)
             ELSE Returned(fused, 0)

Rankings == SeqsUpTo(SeqsUpTo({DocIds[i] : i \in 1..Len(DocIds)}, MaxRankLen), MaxRankings)

FuseCalls == [fn : {"rrf_fuse"}, rankings : Rankings, k : {0, 1, 60}]

\* one call of rrf_fuse, without max_results and with one
Fuse ==
    /\ call.fn = "rrf_fuse"
    /\ ret = NoRet
    /\ \E max_results \in (-1)..(MaxRankLen + 1) :
         ret' = [max_results |-> max_results,
                 all |-> rrf_fuse(call.rankings, call.k, <<>>),
                 out |-> rrf_fuse(call.rankings, call.k, <<max_results>>)]
    /\ UNCHANGED <<call, storeVars, appVars, logVars>>

FuseInit == call \in FuseCalls /\ ret = NoRet /\ AppIdle /\ StoreIdle /\ LogIdle

FuseNext == Fuse

SpecFuse == FuseInit /\ [][FuseNext]_vars

(***************************************************************************)
(* openrouter_client.py: rerank_passages_yesno, from the model's output to *)
(* the returned ids.  Passage ids are chunk ids: non-empty and distinct.   *)
(***************************************************************************)
MaxPassages  == 3    \* passages handed to one call
MaxRankedLen == 3    \* entries of the "ranked_ids" list of the model's output

PassageIds == {"a", "b", "c"}

\* an entry of "ranked_ids": a string (an id passed in, or another one) or not a string
RankedEntries == [str : {TRUE}, v : PassageIds \cup {"zz"}] \cup {[str |-> FALSE, v |-> "7"]}

\* what the completion returned: text that holds no JSON, JSON without a "ranked_ids"
\* list, or JSON with one
RerankOutputs ==
    {[kind |-> "unparsable", ranked_ids |-> <<>>], [kind |-> "no_list", ranked_ids |-> <<>>]}
        \cup [kind : {"ranked"}, ranked_ids : SeqsUpTo(RankedEntries, MaxRankedLen)]

\* a plausible slip: an id the model repeats is taken again
RECURSIVE ranked_wanted_repeated(_, _, _)
ranked_wanted_repeated(ranked_ids, wanted_set, seen) ==
    IF ranked_ids = <<>> THEN <<>>
    ELSE LET rid == Head(ranked_ids) IN
         IF ~rid.str \/ rid.v \notin wanted_set
         THEN ranked_wanted_repeated(Tail(ranked_ids), wanted_set, seen)
         ELSE <<rid.v>> \o ranked_wanted_repeated(Tail(ranked_ids), wanted_set, seen \cup {rid.v})

\* rerank_passages_yesno: the loop over ranked_ids
RECURSIVE ranked_wanted(_, _, _)
ranked_wanted(ranked_ids, wanted_set, seen) ==
    IF ranked_ids = <<>> THEN <<>>
    ELSE LET rid == Head(ranked_ids) IN
         IF ~rid.str \/ rid.v \in seen \/ rid.v \notin wanted_set
         THEN ranked_wanted(Tail(ranked_ids), wanted_set, seen)
         ELSE <<rid.v>> \o ranked_wanted(Tail(ranked_ids), wanted_set, seen \cup {rid.v})

rerank_passages_yesno(query, passages, output) ==
    IF query = "" \/ passages = <<>> THEN passages
    ELSE IF output.kind # "ranked" THEN passages
    ELSE LET wanted == passages
             out == ranked_wanted(output.ranked_ids, SeqRange(wanted), {})
         IN  out \o SelectSeq(wanted, LAMBDA pid : pid \notin SeqRange(out))

RerankCalls ==
    [fn : {"rerank"}, query : {"", "q"},
     passages : DistinctSeqs(PassageIds, 0, Min(MaxPassages, Cardinality(PassageIds))),
     output : RerankOutputs]

Rerank ==
    /\ call.fn = "rerank"
    /\ ret = NoRet
    /\ ret' = [ids |-> rerank_passages_yesno(call.query, call.passages, call.output)]
    /\ UNCHANGED <<call, storeVars, appVars, logVars>>

RerankInit == call \in RerankCalls /\ ret = NoRet /\ AppIdle /\ StoreIdle /\ LogIdle

RerankNext == Rerank

SpecRerank == RerankInit /\ [][RerankNext]_vars

(***************************************************************************)
(* retrieval/hybrid_retriever.py: HybridRetriever.search over a built      *)
(* retriever.  Scores are exact integers: a cosine is counted in halves,   *)
(* a vector score in quarters, a weight in tenths; the normalised BM25     *)
(* score is a numerator over the query's denominator bm25_max - bm25_min.  *)
(***************************************************************************)
MaxDocs        == 3    \* chunks of the built retriever
MaxSearchTopK  == 4    \* top_k of a search
MaxCandidateK  == 2    \* candidate_k of the retriever

CosineValues == {-2, 0, 2}      \* cosine similarity -1, 0, 1 in halves
Bm25Values   == {-1, 0, 2}      \* raw BM25Okapi scores
VectorWeights == {5, 8}         \* vector_weight in tenths; bm25_weight is the rest

\* the top-k index sets argsort / argpartition / IndexFlatIP.search may return:
\* ties are broken by the library
TopPools(scores, k) ==
    {P \in SUBSET (1..Len(scores)) :
        /\ Cardinality(P) = k
        /\ \A i \in P : \A j \in (1..Len(scores)) \ P : scores[i] >= scores[j]}

\* float(np.clip((cos + 1.0) * 0.5, 0.0, 1.0)), in quarters
clip_cosine(cos) == Min(Max(cos + 2, 0), 4)

\* a plausible slip: a candidate the vector search did not return keeps the fallback 0.0
missing_vector_score_fallback(cos, idx) == 0

\* search: the vector score computed for a candidate missing from the vector pool
missing_vector_score(cos, idx) == clip_cosine(cos[idx])

\* search: bm25_max - bm25_min of the BM25 pool, the denominator of norm_bm25
bm25_denominator(bm25, bm25_top_idx) ==
    LET top == {bm25[i] : i \in bm25_top_idx}
        bm25_min == CHOOSE x \in top : \A y \in top : x <= y
        bm25_max == CHOOSE x \in top : \A y \in top : x >= y
    IN  IF bm25_max > bm25_min THEN bm25_max - bm25_min ELSE 1

\* search: norm_bm25, as a numerator over bm25_denominator
norm_bm25(bm25, bm25_top_idx, raw) ==
    LET top == {bm25[i] : i \in bm25_top_idx}
        bm25_min == CHOOSE x \in top : \A y \in top : x <= y
        bm25_max == CHOOSE x \in top : \A y \in top : x >= y
    IN  IF bm25_max <= 0 THEN 0
        ELSE IF bm25_max = bm25_min THEN 1
        ELSE raw - bm25_min

ScoredChunk(chunk, final, vector_score, bm25_norm) ==
    [chunk |-> chunk, final_score |-> final, vector_score |-> vector_score,
     bm25_score_norm |-> bm25_norm]

\* scored.sort(key=final_score, reverse=True): stable, over the candidates in index order
RECURSIVE sort_by_final_score(_)
sort_by_final_score(scored) ==
    IF scored = <<>> THEN <<>>
    ELSE LET best == CHOOSE i \in 1..Len(scored) :
                        /\ \A j \in 1..Len(scored) : scored[i].final_score >= scored[j].final_score
                        /\ \A j \in 1..(i - 1) : scored[j].final_score < scored[i].final_score
         IN  <<scored[best]>> \o
             sort_by_final_score(SubSeq(scored, 1, best - 1) \o SubSeq(scored, best + 1, Len(scored)))

\* search, phase C: the candidate union scored; the scores are scaled by the tenths of
\* the weights, the quarters of the vector score and the BM25 denominator
fusion_candidates(cos, bm25, vector_weight, vec_ids_list, bm25_top_idx) ==
    LET candidate_ids == vec_ids_list \cup bm25_top_idx
        den == bm25_denominator(bm25, bm25_top_idx)
        vector_score(idx) == IF idx \in vec_ids_list THEN clip_cosine(cos[idx])
                             ELSE missing_vector_score(cos, idx)
        bm25_norm(idx) == IF idx \in bm25_top_idx THEN norm_bm25(bm25, bm25_top_idx, bm25[idx])
                          ELSE 0
        final(idx) == vector_weight * vector_score(idx) * den
                        + (10 - vector_weight) * bm25_norm(idx) * 4
        RECURSIVE in_order(_)
        in_order(idx) ==
            IF idx > Len(cos) THEN <<>>
            ELSE (IF idx \in candidate_ids
                  THEN <<ScoredChunk(idx, final(idx), vector_score(idx), bm25_norm(idx))>>
                  ELSE <<>>) \o in_order(idx + 1)
    IN  in_order(1)

search(cos, bm25, vector_weight, top_k, vec_ids_list, bm25_top_idx) ==
    IF top_k < 1 THEN Raised("ValueError", <<>>, 0)
    ELSE LET scored == sort_by_final_score(
                           fusion_candidates(cos, bm25, vector_weight, vec_ids_list, bm25_top_idx))
         IN  Returned(SubSeq(scored, 1, Min(top_k, Len(scored))), 0)

SearchCalls ==
    UNION {[fn : {"search"}, cos : [1..n -> CosineValues], bm25 : [1..n -> Bm25Values],
            vector_weight : VectorWeights, candidate_k : 1..MaxCandidateK,
            top_k : 0..MaxSearchTopK] : n \in 1..MaxDocs}

\* one search: the two pools are whatever top-k the libraries return
Search ==
    /\ call.fn = "search"
    /\ ret = NoRet
    /\ LET n_docs == Len(call.cos)
           fetch_k == Min(Max(call.top_k, call.candidate_k), n_docs)
       IN  \E vec_ids_list \in TopPools(call.cos, fetch_k),
              bm25_top_idx \in TopPools(call.bm25, fetch_k) :
                ret' = [vec_ids_list |-> vec_ids_list,
                        bm25_top_idx |-> bm25_top_idx,
                        denominator |-> bm25_denominator(call.bm25, bm25_top_idx),
                        scored |-> fusion_candidates(call.cos, call.bm25, call.vector_weight,
                                                     vec_ids_list, bm25_top_idx),
                        out |-> search(call.cos, call.bm25, call.vector_weight, call.top_k,
                                       vec_ids_list, bm25_top_idx)]
    /\ UNCHANGED <<call, storeVars, appVars, logVars>>

SearchInit == call \in SearchCalls /\ ret = NoRet /\ AppIdle /\ StoreIdle /\ LogIdle

SearchNext == Search

SpecSearch == SearchInit /\ [][SearchNext]_vars

(***************************************************************************)
(* ingestion/chunker.py: Chunker.chunk.  A block is the sequence of the     *)
(* token estimates of the sentences _split_sentences finds in its text (a  *)
(* block of blank text has none).  A chunk is the sequence of the indices  *)
(* of its sentences in the flattened stream; its content joins their texts *)
(* with a space, so its token estimate is the sum of theirs.               *)
(***************************************************************************)
MaxSentences     == 4    \* sentences of the document
MaxSentTokens    == 3    \* estimated tokens of one sentence
MaxTargetTokens  == 3    \* target_tokens
MaxOverlapTokens == 2    \* overlap_tokens
min_chunk_tokens == 1    \* the floor of 50 tokens under a semantic split, scaled

\* estimate_tokens of the sentences sents (indices into tokens)
RECURSIVE sum_tokens(_, _)
sum_tokens(tokens, sents) ==
    IF sents = <<>> THEN 0 ELSE tokens[Head(sents)] + sum_tokens(tokens, Tail(sents))

\* _get_overlap_sents: the loop over reversed(sents); overlap is in reversed order
RECURSIVE overlap_loop(_, _, _, _, _)
overlap_loop(tokens, overlap_tokens, sents, j, overlap) ==
    IF j < 1 THEN overlap
    ELSE LET sent_tokens == tokens[sents[j]]
             acc == sum_tokens(tokens, overlap)
         IN  IF acc + sent_tokens > overlap_tokens /\ overlap # <<>> THEN overlap
             ELSE IF acc + sent_tokens >= overlap_tokens THEN Append(overlap, sents[j])
             ELSE overlap_loop(tokens, overlap_tokens, sents, j - 1, Append(overlap, sents[j]))

Reverse(q) == [i \in 1..Len(q) |-> q[Len(q) + 1 - i]]

\* a plausible slip: the overlap is left in the order the loop collected it
_get_overlap_sents_unreversed(tokens, overlap_tokens, sents) ==
    IF overlap_tokens <= 0 \/ sents = <<>> THEN <<>>
    ELSE overlap_loop(tokens, overlap_tokens, sents, Len(sents), <<>>)

_get_overlap_sents(tokens, overlap_tokens, sents) ==
    IF overlap_tokens <= 0 \/ sents = <<>> THEN <<>>
    ELSE Reverse(overlap_loop(tokens, overlap_tokens, sents, Len(sents), <<>>))

\* _flush_chunk
_flush_chunk(chunks, sents) == IF sents = <<>> THEN chunks ELSE Append(chunks, sents)

\* chunk: the loop over all_sentences from sentence i on, then the flush of the remainder.
\* far[i] says that distances[i] exceeds semantic_threshold.
RECURSIVE chunk_loop(_, _, _, _)
chunk_loop(c, i, chunks, current_chunk_sents) ==
    IF i > Len(c.tokens) THEN _flush_chunk(chunks, current_chunk_sents)
    ELSE LET over == /\ current_chunk_sents # <<>>
                     /\ sum_tokens(c.tokens, current_chunk_sents) + c.tokens[i] > c.target_tokens
             chunks1 == IF over THEN _flush_chunk(chunks, current_chunk_sents) ELSE chunks
             sents1 == Append(IF over
                              THEN _get_overlap_sents(c.tokens, c.overlap_tokens, current_chunk_sents)
                              ELSE current_chunk_sents, i)
             should_split == /\ c.semantic_enabled
                             /\ i < Len(c.tokens)
                             /\ c.far[i]
                             /\ sum_tokens(c.tokens, sents1) > min_chunk_tokens
         IN  IF should_split
             THEN chunk_loop(c, i + 1, _flush_chunk(chunks1, sents1),
                             _get_overlap_sents(c.tokens, c.overlap_tokens, sents1))
             ELSE chunk_loop(c, i + 1, chunks1, sents1)

\* a plausible slip: the loop over the blocks ends at the first blank block
RECURSIVE all_sentences_until_blank(_)
all_sentences_until_blank(blocks) ==
    IF blocks = <<>> \/ Head(blocks) = <<>> THEN <<>>
    ELSE Head(blocks) \o all_sentences_until_blank(Tail(blocks))

\* chunk, steps 1 and 2: the sentences of the blocks in block order, a blank block skipped
RECURSIVE all_sentences(_)
all_sentences(blocks) ==
    IF blocks = <<>> THEN <<>>
    ELSE IF Head(blocks) = <<>> THEN all_sentences(Tail(blocks))
    ELSE Head(blocks) \o all_sentences(Tail(blocks))

\* chunk: no sentence, no chunk; else the grouping of step 4 over the stream
chunk(c) ==
    LET tokens == all_sentences(c.blocks)
    IN  IF tokens = <<>> THEN <<>>
        ELSE chunk_loop([tokens |-> tokens, target_tokens |-> c.target_tokens,
                         overlap_tokens |-> c.overlap_tokens,
                         semantic_enabled |-> c.semantic_enabled, far |-> c.far],
                        1, <<>>, <<>>)

\* the sentences t as one block, and as two blocks around a blank one
Blockings(t) ==
    {<<t>>} \cup {<<SubSeq(t, 1, k), <<>>, SubSeq(t, k + 1, Len(t))>> : k \in {0, Len(t) \div 2}}

\* without semantic chunking every distance is 0.0
ChunkCalls ==
    UNION {UNION {[fn : {"chunk"}, blocks : Blockings(t),
                   target_tokens : 1..MaxTargetTokens, overlap_tokens : 0..MaxOverlapTokens,
                   semantic_enabled : {FALSE}, far : {[i \in 1..(n - 1) |-> FALSE]}]
                  \cup
                  [fn : {"chunk"}, blocks : Blockings(t),
                   target_tokens : 1..MaxTargetTokens, overlap_tokens : 0..MaxOverlapTokens,
                   semantic_enabled : {TRUE}, far : [1..(n - 1) -> BOOLEAN]]
                  : t \in [1..n -> 0..MaxSentTokens]} : n \in 0..MaxSentences}

ChunkDocument ==
    /\ call.fn = "chunk"
    /\ ret = NoRet
    /\ LET chunks == chunk(call)
           tokens == all_sentences(call.blocks)
       IN  ret' = [chunks |-> chunks,
                   \* item["tokens"] of the sentences of all_sentences
                   all_sentences |-> tokens,
                   \* what _get_overlap_sents made of each flushed buffer
                   overlaps |-> [n \in 1..Len(chunks) |->
                                   _get_overlap_sents(tokens, call.overlap_tokens, chunks[n])]]
    /\ UNCHANGED <<call, storeVars, appVars, logVars>>

ChunkInit == call \in ChunkCalls /\ ret = NoRet /\ AppIdle /\ StoreIdle /\ LogIdle

ChunkNext == ChunkDocument

SpecChunk == ChunkInit /\ [][ChunkNext]_vars

(***************************************************************************)
(* repacking.py.  A list is a reference and its items, so that "the same   *)
(* list" and "an equal list" differ; a slice makes a new list.  A strategy *)
(* string is a sequence of pieces: a space or a word in some spelling.     *)
(***************************************************************************)
MaxRepackLen   == 3    \* chunks handed to one call
MaxStrategyLen == 3    \* pieces of a strategy string

StrategyPieces ==
    {" ", "forward", "FORWARD", "none", "Off", "disabled", "disable", "reverse", "???"}

\* str.lower() of one piece
lower(piece) ==
    CASE piece = "FORWARD" -> "forward"
      [] piece = "Off" -> "off"
      [] OTHER -> piece

RECURSIVE lstrip(_)
lstrip(t) == IF t # <<>> /\ Head(t) = " " THEN lstrip(Tail(t)) ELSE t

RECURSIVE rstrip(_)
rstrip(t) == IF t # <<>> /\ t[Len(t)] = " " THEN rstrip(SubSeq(t, 1, Len(t) - 1)) ELSE t

\* a plausible slip: the strategy is trimmed and compared as spelled
normalized_as_spelled(strategy) == rstrip(lstrip(strategy))

\* repack_chunks: (strategy or "").strip().lower()
normalized(strategy) ==
    LET stripped == rstrip(lstrip(strategy))
    IN  [i \in 1..Len(stripped) |-> lower(stripped[i])]

\* chunks[::-1]
new_reversed_list(chunks) == [ref |-> chunks.ref + 1, items |-> Reverse(chunks.items)]

repack_chunks_reverse(chunks) ==
    IF Len(chunks.items) <= 1 THEN chunks ELSE new_reversed_list(chunks)

repack_chunks(chunks, strategy) ==
    IF normalized(strategy) \in {<<"forward">>, <<"none">>, <<"off">>, <<"disabled">>, <<"disable">>}
    THEN chunks
    ELSE repack_chunks_reverse(chunks)

apply_repack_strategy(chunks, fast_mode, repack_strategy) ==
    IF fast_mode THEN chunks ELSE repack_chunks(chunks, repack_strategy)

RepackCalls ==
    [fn : {"repack"},
     chunks : [ref : {0}, items : SeqsUpTo({"a", "b"}, MaxRepackLen)],
     fast_mode : BOOLEAN,
     strategy : SeqsUpTo(StrategyPieces, MaxStrategyLen)]

Repack ==
    /\ call.fn = "repack"
    /\ ret = NoRet
    /\ ret' = [applied |-> apply_repack_strategy(call.chunks, call.fast_mode, call.strategy),
               repacked |-> repack_chunks(call.chunks, call.strategy),
               reversed |-> repack_chunks_reverse(call.chunks),
               twice |-> repack_chunks_reverse(repack_chunks_reverse(call.chunks))]
    /\ UNCHANGED <<call, storeVars, appVars, logVars>>

RepackInit == call \in RepackCalls /\ ret = NoRet /\ AppIdle /\ StoreIdle /\ LogIdle

RepackNext == Repack

SpecRepack == RepackInit /\ [][RepackNext]_vars

(***************************************************************************)
(* main.py, chat: the embedding rows of one query, or of the HyDE passage, *)
(* collapsed into one vector.  A vector is a sequence of integers; the     *)
(* mean is kept exact as the component sums over the number of rows.  The  *)
(* aggregation decay of the settings is counted in tenths.                 *)
(***************************************************************************)
MaxRows   == 2    \* rows of one query: the instruction-formatted input, then the raw text
MaxEmbDim == 2    \* components of an embedding row

EmbeddingRows(n) == [1..n -> [1..MaxEmbDim -> (-1)..1]]

DecayTenths == {5, 7, 10}    \* Settings.embedding_aggregation_decay: 0.5, 0.7 (default), 1.0

\* np.mean(q_embs[sl], axis=0)
np_mean(rows) ==
    LET sum[i \in 0..Len(rows)] ==
            IF i = 0 THEN [j \in 1..MaxEmbDim |-> 0]
            ELSE [j \in 1..MaxEmbDim |-> sum[i - 1][j] + rows[i][j]]
    IN  [num |-> sum[Len(rows)], den |-> Len(rows)]

\* chat: query_vecs[q]; the settings' decay is not read
query_vec(rows, settings_decay) == np_mean(rows)

\* chat: hyde_vec; the settings' decay is not read
hyde_vec(rows, settings_decay) == np_mean(rows)

\* a query has one row, or two when the raw text is embedded too; the HyDE passage has one
AggregateCalls ==
    UNION {[fn : {"aggregate"}, site : {"query"}, rows : EmbeddingRows(n), decay : DecayTenths]
              : n \in 1..MaxRows}
       \cup [fn : {"aggregate"}, site : {"hyde"}, rows : EmbeddingRows(1), decay : DecayTenths]

Aggregate ==
    /\ call.fn = "aggregate"
    /\ ret = NoRet
    /\ ret' = [vec |-> IF call.site = "query" THEN query_vec(call.rows, call.decay)
                       ELSE hyde_vec(call.rows, call.decay)]
    /\ UNCHANGED <<call, storeVars, appVars, logVars>>

AggregateInit == call \in AggregateCalls /\ ret = NoRet /\ AppIdle /\ StoreIdle /\ LogIdle

AggregateNext == Aggregate

SpecAggregate == AggregateInit /\ [][AggregateNext]_vars

(***************************************************************************)
(* main.py: lifespan and _cleanup_loop.  The loop is an asyncio task: it   *)
(* is suspended only in wait_for(shutdown_event.wait(), timeout=interval). *)
(* lifespan's exit sets the event and cancels the task in one step of the  *)
(* event loop.  Time does not pass while the task is runnable, nor beyond  *)
(* the timeout of its wait.                                                *)
(***************************************************************************)
session_cleanup_interval_seconds == 2    \* Settings: 30 seconds, scaled

\* lifespan: cleanup_task = asyncio.create_task(_cleanup_loop(..))
StartedSweeper == [pc |-> "test", waited |-> 0, shutdown_event |-> FALSE]

\* _cleanup_loop: `while not shutdown_event.is_set(): cleanup_expired_sessions()`, up to
\* the await
sweeper_pass ==
    /\ sweeper.pc = "test"
    /\ ~sweeper.shutdown_event
    /\ cleanup_expired_sessions
    /\ sweeper' = [sweeper EXCEPT !.pc = "waiting", !.waited = 0]

\* a plausible slip: the timeout of the wait ends the loop (the TimeoutError is not caught)
sweeper_timeout_ends_loop ==
    /\ sweeper.pc = "waiting"
    /\ sweeper.waited >= session_cleanup_interval_seconds
    /\ sweeper' = [sweeper EXCEPT !.pc = "done"]
    /\ UNCHANGED <<now, SESSIONS, touched, store_ret, pureVars, appVars, logVars>>

\* _cleanup_loop: wait_for times out, `except TimeoutError: continue`
sweeper_timeout ==
    /\ sweeper.pc = "waiting"
    /\ sweeper.waited >= session_cleanup_interval_seconds
    /\ sweeper' = [sweeper EXCEPT !.pc = "test"]
    /\ UNCHANGED <<now, SESSIONS, touched, store_ret, pureVars, appVars, logVars>>

\* lifespan, after the yield: shutdown_event.set(); cleanup_task.cancel()
lifespan_shutdown ==
    /\ ~sweeper.shutdown_event
    /\ sweeper' = [sweeper EXCEPT !.pc = "done", !.shutdown_event = TRUE]
    /\ UNCHANGED <<now, SESSIONS, touched, store_ret, pureVars, appVars, logVars>>

\* a second passes (the clock of the model stops at MaxTime, the wait goes on)
SweepTick ==
    /\ sweeper.pc # "test"
    /\ sweeper.pc = "waiting" => sweeper.waited < session_cleanup_interval_seconds
    /\ now' = Min(now + 1, MaxTime)
    /\ sweeper' = IF sweeper.pc = "waiting" THEN [sweeper EXCEPT !.waited = @ + 1] ELSE sweeper
    /\ store_ret' = StoreRet("tick", None, 0, FALSE, 0)
    /\ UNCHANGED <<SESSIONS, touched, pureVars, appVars, logVars>>

SweepInit ==
    /\ now = 1
    /\ SESSIONS = EmptyMap
    /\ touched = EmptyMap
    /\ store_ret = NoStoreRet
    /\ sweeper = StartedSweeper
    /\ AppIdle /\ PureIdle /\ LogIdle

SweepNext ==
    \/ SweepTick
    \/ sweeper_pass
    \/ sweeper_timeout
    \/ lifespan_shutdown
    \/ \E sid \in SessionIds, ttl \in Ttls : get_or_create_session(sid, ttl)
    \/ \E sid \in SessionIds, ttl \in Ttls : get_session(sid, ttl)

\* the event loop runs a runnable task, fires a due timeout, and time passes
SpecSweep ==
    /\ SweepInit /\ [][SweepNext]_vars
    /\ WF_vars(sweeper_pass) /\ WF_vars(sweeper_timeout) /\ WF_vars(SweepTick)

(***************************************************************************)
(* Properties.                                                             *)
(***************************************************************************)
\* a text without its leading and trailing whitespace
NonWs(t) == {i \in 1..Len(t) : t[i] # WS}
Trimmed(t) ==
    IF NonWs(t) = {} THEN <<>>
    ELSE SubSeq(t, CHOOSE i \in NonWs(t) : \A j \in NonWs(t) : i <= j,
                   CHOOSE i \in NonWs(t) : \A j \in NonWs(t) : i >= j)

\* the numbers n of the citations [n] of a text
Cited(t) == {t[i].n : i \in {j \in 1..Len(t) : t[j].k = "c"}}

\* the answer is the sentinel, or a trimmed text with at least one citation and
\* every citation in 1..size
SentinelOrCited(answer, size) ==
    \/ answer = <<NM>>
    \/ /\ answer = Trimmed(answer)
       /\ Cited(answer) # {}
       /\ Cited(answer) \subseteq 1..size

\* C1: once the first answer completion of a chat request has returned, the request
\* is waiting for its one retry completion or has ended with a 200 response whose
\* answer is the sentinel or a trimmed answer citing only [1]..[number of context
\* chunks returned], also when the retry completion fails at the gateway.
C1_AnswerOrSentinel ==
    \A r \in Requests :
        chat[r].first =>
            \/ chat[r].pc = "retry"
            \/ /\ chat[r].pc = "done"
               /\ chat[r].status = 200
               /\ SentinelOrCited(chat[r].answer, Len(chat[r].citations))

\* a request whose first completion failed the guardrail waits for its retry completion
C1_Witness == \E r \in Requests : chat[r].first /\ chat[r].pc = "retry"

\* C2: enforce decides in the order empty -> sentinel -> missing citations -> out of
\* range -> pass unchanged; a failure always yields the sentinel, a success the
\* sentinel or an answer with every citation in 1..contextSize.
C2_EnforceDecision ==
    ret # NoRet =>
        LET raw   == Trimmed(call.answer)
            cited == Cited(raw)
            fails(reason) == ret = [ok |-> FALSE, answer |-> <<NM>>, reason |-> reason]
        IN  /\ IF raw = <<>> THEN fails("empty_answer")
               ELSE IF raw = <<NM>> THEN ret.ok /\ ret.answer = <<NM>>
               ELSE IF call.require_citations /\ cited = {} THEN fails("missing_citations")
               ELSE IF \E n \in cited : n < 1 \/ n > call.context_size
                    THEN fails("out_of_range_citations")
               ELSE ret.ok /\ ret.answer = raw
            /\ ~ret.ok => ret.answer = <<NM>>
            /\ ret.ok => ret.answer = <<NM>> \/ Cited(ret.answer) \subseteq 1..call.context_size

\* an answer citing [contextSize + 1] beside a valid citation was rejected
C2_Witness ==
    /\ ret.reason = "out_of_range_citations"
    /\ {call.context_size, call.context_size + 1} \subseteq Cited(call.answer)
    /\ call.context_size >= 1

\* C3: every ingestion task that has ended was not ended by an exception, and once no
\* ingestion task is running the session is `ready`, or `error` with ingest_error set.
C3_IngestionSettles ==
    /\ \A u \in Uploads : ~ingest[u].crashed
    /\ (/\ \E u \in Uploads : ingest[u].pc = "done"
        /\ \A u \in Uploads : ingest[u].pc # "embedding")
       => /\ session.ingest_status \in {"ready", "error"}
          /\ session.ingest_status = "error" => session.ingest_error # None

\* an ingestion has ended with ingest_status = error and its message recorded
C3_Witness ==
    /\ \E u \in Uploads : ingest[u].pc = "done"
    /\ session.ingest_status = "error"
    /\ session.ingest_error = "Inconsistent embedding dim across batches"

\* C4: ingest_status = ready implies a built retriever, a non-empty chunk list that is
\* the list the retriever was built over, and a detected document language.
C4_ReadyIsComplete ==
    session.ingest_status = "ready" =>
        /\ session.retriever.built
        /\ session.chunks # <<>>
        /\ session.retriever.chunks = session.chunks
        /\ session.doc_language \in {"en", "zh"}
        /\ session.doc_language = session.retriever.doc_language

\* the session is ready with the document of one upload while another ingestion of
\* the same session is still embedding
C4_Witness ==
    /\ session.ingest_status = "ready"
    /\ \E u \in Uploads : ingest[u].pc = "embedding" /\ session.chunks[1].doc # u

\* C5: a chat on an unknown session ends at once with 404, a chat on a session that
\* is not ready or has no retriever ends at once with 400; neither enters a gateway
\* call or retrieves anything, waits for an ingestion, or changes the session (its
\* chat history and reference registry included).
C5_RejectedChat ==
    [][\A r \in Requests :
         (chat[r].pc = "new" /\ chat'[r] # chat[r]) =>
            /\ ~session.exists =>
                 chat'[r] = [ChatRequest("done") EXCEPT !.status = 404,
                                                        !.detail = "Unknown session"]
            /\ (session.exists /\ (session.ingest_status # "ready" \/ ~session.retriever.built)) =>
                 chat'[r] = [ChatRequest("done") EXCEPT !.status = 400,
                                                        !.detail = "No active document"]
            /\ (~session.exists \/ session.ingest_status # "ready" \/ ~session.retriever.built) =>
                 /\ chat'[r].pc \notin GatewayPcs
                 /\ chat'[r].retrieved = <<>>
                 /\ session' = session
                 /\ ingest' = ingest]_vars

\* one chat was refused with 404 before any upload, another with 400 while the
\* document was still processing
C5_Witness ==
    /\ session.ingest_status = "processing"
    /\ \E r1, r2 \in Requests :
         /\ chat[r1].status = 404
         /\ chat[r2].status = 400 /\ chat[r2].detail = "No active document"

\* C6: a session touched at time T with ttl has expires_at = T + ttl, whatever its
\* creation time and earlier expiry; a cleanup before T + ttl keeps it, a cleanup at
\* or after T + ttl removes it; a get of an absent session returns no value and
\* creates none.
C6_TouchResetsExpiry ==
    /\ [](\A sid \in DOMAIN SESSIONS :
             SESSIONS[sid].expires_at = touched[sid].at + touched[sid].ttl)
    /\ [][store_ret'.op = "cleanup" =>
            \A sid \in DOMAIN SESSIONS :
                IF now < touched[sid].at + touched[sid].ttl
                THEN sid \in DOMAIN SESSIONS' /\ SESSIONS'[sid] = SESSIONS[sid]
                ELSE sid \notin DOMAIN SESSIONS']_vars
    /\ [][(store_ret'.op = "get" /\ store_ret'.sid \notin DOMAIN SESSIONS) =>
            ~store_ret'.found /\ SESSIONS' = SESSIONS]_vars

\* a cleanup evicted a session and kept one that would have expired had its expiry
\* still been counted from its creation
C6_Witness ==
    /\ store_ret.op = "cleanup"
    /\ store_ret.count >= 1
    /\ \E sid \in DOMAIN SESSIONS :
         /\ touched[sid].at > SESSIONS[sid].created_at
         /\ now >= SESSIONS[sid].created_at + touched[sid].ttl

\* C7: cleanup_expired_sessions(now) removes exactly the sessions whose expires_at is
\* non-zero and <= now, returns their number, and leaves every other session as it was.
C7_CleanupExact ==
    [][store_ret'.op = "cleanup" =>
         LET gone == {sid \in DOMAIN SESSIONS :
                         SESSIONS[sid].expires_at # 0 /\ SESSIONS[sid].expires_at <= now}
         IN  /\ DOMAIN SESSIONS' = DOMAIN SESSIONS \ gone
             /\ store_ret'.count = Cardinality(gone)
             /\ \A sid \in DOMAIN SESSIONS' : SESSIONS'[sid] = SESSIONS[sid]]_vars

\* a cleanup removed one session, whose expires_at was the current time at the
\* latest, and left another
C7_Witness ==
    /\ store_ret.op = "cleanup"
    /\ store_ret.count = 1
    /\ Cardinality(DOMAIN SESSIONS) = 1
    /\ \A sid \in DOMAIN SESSIONS : SESSIONS[sid].expires_at > now

\* the first position of chunk c in the citation list cs
FirstIn(cs, c) == CHOOSE i \in 1..Len(cs) : cs[i] = c /\ \A j \in 1..(i - 1) : cs[j] # c

\* C8: the registry maps the registered chunk ids one-to-one onto 1..N and
\* references[g] is the chunk numbered g; a call of register_references keeps every
\* number already given, appends the new chunks in the order of their first use, and
\* changes nothing for a chunk already registered or listed twice.
C8_RegistryBijection ==
    /\ [](LET ids == session.reference_ids  refs == session.references
          IN  /\ DOMAIN ids = {refs[g] : g \in 1..Len(refs)}
              /\ \A g \in 1..Len(refs) : ids[refs[g]] = g)
    /\ [][call'.fn = "register" =>
            LET ids == session.reference_ids   refs == session.references
                refs2 == session'.references   cs == call'.citations
                new == SubSeq(refs2, Len(refs) + 1, Len(refs2))
            IN  /\ \A c \in DOMAIN ids : c \in DOMAIN session'.reference_ids
                                          /\ session'.reference_ids[c] = ids[c]
                /\ Len(refs2) >= Len(refs) /\ SubSeq(refs2, 1, Len(refs)) = refs
                /\ {new[i] : i \in 1..Len(new)} = {cs[i] : i \in 1..Len(cs)} \ DOMAIN ids
                /\ \A i, j \in 1..Len(new) :
                      i < j => new[i] # new[j] /\ FirstIn(cs, new[i]) < FirstIn(cs, new[j])
                /\ ({cs[i] : i \in 1..Len(cs)} \subseteq DOMAIN ids) => session' = session]_vars

\* one call listed the same new chunk twice after other chunks were registered
C8_Witness ==
    /\ call.fn = "register"
    /\ Len(call.citations) = 2 /\ call.citations[1] = call.citations[2]
    /\ Len(session.references) = MaxRefChunks
    /\ session.references[MaxRefChunks] = call.citations[1]

\* C9: in an export every citation [n] of a stored assistant answer is rendered as
\* [g] with Appendix entry g the n-th chunk of that turn's citation list, nothing else
\* of the answer changes, and the Appendix lists exactly the cited chunks, numbered
\* 1..N in the order of their first use across turns.
C9_ExportCitations ==
    export.status = 200 =>
        LET turns == export.turns
            refs  == export.refs
            Pos == UNION {{<<i, k>> : k \in {j \in 1..Len(turns[i].content) :
                                                turns[i].role = "assistant"
                                                /\ turns[i].content[j].k = "c"}}
                          : i \in 1..Len(turns)}
            local(p) == turns[p[1]].content[p[2]].n
            chunkAt(p) == turns[p[1]].citations[local(p)]
            Before(p, q) == p[1] < q[1] \/ (p[1] = q[1] /\ p[2] < q[2])
            First(c) == CHOOSE p \in Pos :
                           chunkAt(p) = c /\ \A q \in Pos : chunkAt(q) = c => ~Before(q, p)
        IN  /\ \A p \in Pos : local(p) \in 1..Len(turns[p[1]].citations)
            /\ Len(export.blocks) = Len(turns)
            /\ \A i \in 1..Len(turns) :
                 LET b == export.blocks[i].content IN
                 /\ export.blocks[i].role = turns[i].role
                 /\ Len(b) = Len(turns[i].content)
                 /\ \A k \in 1..Len(b) :
                      IF <<i, k>> \in Pos
                      THEN /\ b[k].k = "c"
                           /\ b[k].n \in 1..Len(refs)
                           /\ refs[b[k].n] = chunkAt(<<i, k>>)
                      ELSE b[k] = turns[i].content[k]
            /\ {refs[g] : g \in 1..Len(refs)} = {chunkAt(p) : p \in Pos}
            /\ \A g, h \in 1..Len(refs) :
                 g < h => refs[g] # refs[h] /\ Before(First(refs[g]), First(refs[h]))

\* an export of two assistant turns in which a local number was rewritten to a
\* different global number
C9_Witness ==
    /\ export.status = 200
    /\ Len(export.refs) >= 2
    /\ \E i \in 1..Len(export.turns) :
         /\ export.turns[i].role = "assistant"
         /\ export.blocks[i].content # export.turns[i].content
    /\ Cardinality({i \in 1..Len(export.turns) : export.turns[i].role = "assistant"}) >= 2

\* C10: the citations of a 200 response are the chunks of the context of the final
\* prompt in prompt order (citation i is the chunk of block [i]) and at most top_k;
\* the response stores that list with its assistant turn, and registers exactly the
\* chunks at the in-range citation numbers of the final answer.
C10_CitationsAreContext ==
    /\ [](\A r \in Requests :
            chat[r].status = 200 =>
               /\ Len(chat[r].citations) = Len(chat[r].context)
               /\ \A i \in 1..Len(chat[r].context) :
                     chat[r].context[i] = [n |-> i, chunk |-> chat[r].citations[i]]
               /\ Len(chat[r].citations) <= chat[r].top_k)
    /\ [][\A r \in Requests :
            (chat[r].status # 200 /\ chat'[r].status = 200) =>
               LET h == session.chat_history   h2 == session'.chat_history
                   cites == chat'[r].citations
                   cited == {cites[n] : n \in Cited(chat'[r].answer) \cap (1..Len(cites))}
               IN  /\ Len(h2) = Len(h) + 2 /\ SubSeq(h2, 1, Len(h)) = h
                   /\ h2[Len(h2)] = ChatTurn("assistant", chat'[r].answer, cites)
                   /\ DOMAIN session'.reference_ids = DOMAIN session.reference_ids \cup cited
                   /\ {session'.references[g] : g \in 1..Len(session'.references)}
                        = {session.references[g] : g \in 1..Len(session.references)} \cup cited]_vars

\* a response returned two citations while its answer cited only [2], and only that
\* chunk was registered
C10_Witness ==
    \E r \in Requests :
        /\ chat[r].status = 200
        /\ Len(chat[r].citations) = 2
        /\ Cited(chat[r].answer) = {2}
        /\ session.references = <<chat[r].citations[2]>>

\* C11: chat history is a sequence of adjacent (user, assistant) pairs, each pair the
\* message and the answer of one request; a step that changes the history or the
\* reference registry either resets both (a new document) or appends the pair of one
\* request and registers that request's cited chunks, all in that one step.
C11_TurnPairs ==
    /\ [](LET h == session.chat_history IN
          /\ Len(h) % 2 = 0
          /\ \A i \in 1..Len(h) :
                i % 2 = 1 =>
                   \E r \in Requests :
                      /\ h[i] = ChatTurn("user", user_query(r), <<>>)
                      /\ chat[r].status = 200
                      /\ h[i + 1] = ChatTurn("assistant", chat[r].answer, chat[r].citations))
    /\ [][(session'.chat_history # session.chat_history
              \/ session'.references # session.references
              \/ session'.reference_ids # session.reference_ids) =>
            LET h == session.chat_history   h2 == session'.chat_history IN
            \/ /\ h2 = <<>> /\ session'.references = <<>>
               /\ session'.reference_ids = EmptyMap
            \/ \E r \in Requests :
                 /\ chat[r].status # 200 /\ chat'[r].status = 200
                 /\ \A q \in Requests \ {r} : chat'[q] = chat[q]
                 /\ h2 = h \o <<ChatTurn("user", user_query(r), <<>>),
                                 ChatTurn("assistant", chat'[r].answer, chat'[r].citations)>>
                 /\ {session'.references[g] : g \in 1..Len(session'.references)}
                      = {session.references[g] : g \in 1..Len(session.references)}
                          \cup {chat'[r].citations[n] :
                                   n \in Cited(chat'[r].answer) \cap (1..Len(chat'[r].citations))}]_vars

\* two requests that were in flight together have both committed, the one that
\* started second first, each with a cited answer
C11_Witness ==
    /\ Len(session.chat_history) = 4
    /\ session.chat_history[1].content = user_query("r2")
    /\ session.chat_history[3].content = user_query("r1")
    /\ Len(session.references) >= 2

\* the last entry a reader has emitted, 0 before the first
LastEmitted(r) == IF r.emitted = <<>> THEN 0 ELSE r.emitted[Len(r.emitted)]

\* C12: a reader emits entries in strictly increasing sequence-number order; the
\* initial replay emits the whole buffer of the moment of connection; a wake emits
\* the oldest buffered entry newer than the last one emitted (the oldest buffered
\* entry when the buffer has rotated past it) and any step emits at most one entry,
\* newer than the last; log() numbers lines by one and the buffer holds the most
\* recent min(maxlen, count) entries.
C12_StreamOrder ==
    /\ [](\A rd \in Readers :
            \A i, j \in 1..Len(readers[rd].emitted) :
                i < j => readers[rd].emitted[i] < readers[rd].emitted[j])
    /\ [](LET n == Min(log_history_maxlen, log.seq)
          IN  log.history = [i \in 1..n |-> log.seq - n + i])
    /\ [][log'.seq = log.seq \/ log'.seq = log.seq + 1]_vars
    /\ [][\A rd \in Readers :
            LET r == readers[rd]   r2 == readers'[rd]
                newer == {x \in {log.history[i] : i \in 1..Len(log.history)} :
                             x > LastEmitted(r)}
            IN  /\ \/ r2.emitted = r.emitted
                   \/ /\ Len(r2.emitted) = Len(r.emitted) + 1
                      /\ SubSeq(r2.emitted, 1, Len(r.emitted)) = r.emitted
                      /\ LastEmitted(r2) > LastEmitted(r)
                /\ (r.pc = "off" /\ r2.pc # "off") =>
                      r2.emitted \o r2.pending = log.history
                /\ (r.pc = "replay" /\ r.pending # <<>>) =>
                      (r2 = r \/ r2.emitted \o r2.pending = r.emitted \o r.pending)
                /\ (r.pc = "woken" /\ r2 # r) =>
                      IF newer = {} THEN r2.emitted = r.emitted
                      ELSE /\ LastEmitted(r2) \in newer
                           /\ \A x \in newer : LastEmitted(r2) <= x]_vars

\* a reader that had emitted entry 1 was woken after the buffer had rotated past
\* entry 2 and resumed from the oldest entry still buffered
C12_Witness ==
    \E rd \in Readers :
        /\ Len(readers[rd].emitted) >= 2
        /\ readers[rd].emitted[1] = 1
        /\ readers[rd].emitted[2] = 3
        /\ log.history[1] = 3

\* C13: a reader blocked in the wait has emitted every entry the buffer holds, so no
\* entry appended while it was connected waits for a later log line to be emitted.
C13_NoLostWakeup ==
    \A rd \in Readers :
        readers[rd].pc = "blocked" =>
            \A i \in 1..Len(log.history) :
                \E j \in 1..Len(readers[rd].emitted) :
                    readers[rd].emitted[j] = log.history[i]

\* two readers are blocked in the wait and both have emitted the newest entry, which
\* was logged after both had connected
C13_Witness ==
    /\ log.seq >= 2
    /\ \A rd \in Readers :
         /\ readers[rd].pc = "blocked"
         /\ readers[rd].emitted # <<>>
         /\ readers[rd].emitted[1] < log.seq
         /\ LastEmitted(readers[rd]) = log.seq

\* C14: a gateway call makes at most 3 attempts; its first successful attempt ends it
\* and that attempt's value is returned; when all 3 attempts fail the caller receives
\* an OpenRouterError, the error kind the orchestrator catches.
C14_RetryOutcome ==
    (call.fn = "retry" /\ ret # NoRet) =>
        LET oks == {i \in 1..stop_after_attempt : call.attempts[i] = "ok"} IN
        /\ ret.tries <= 3
        /\ IF oks # {}
           THEN /\ ret.kind = "value" /\ ret.value = call.value
                /\ ret.tries \in oks /\ \A i \in oks : ret.tries <= i
           ELSE ret.kind = "OpenRouterError" /\ ret.tries = 3

\* a call returned the value of its third attempt after two failed ones
C14_Witness ==
    /\ call.fn = "retry"
    /\ ret # NoRet
    /\ ret.kind = "value" /\ ret.tries = 3
    /\ call.attempts[1] = "error" /\ call.attempts[2] = "error"

\* C15: no chat request is ended by a gateway failure of query-variant generation, of
\* HyDE generation or of reranking; a request ended by a gateway failure of query
\* translation, of the query embedding or of the first answer completion ends with 502.
C15_DegradeOrUpstream ==
    \A r \in Requests :
        /\ chat[r].failed \notin {"variants", "hyde", "rerank"}
        /\ chat[r].failed \in {"translate", "embed", "answer"} =>
              chat[r].pc = "done" /\ chat[r].status = 502

\* a request has passed variant generation, HyDE and reranking and got its answer
C15_Witness ==
    \E r \in Requests :
        chat[r].status = 200 /\ chat[r].failed = None /\ Len(chat[r].citations) = MaxTopK

\* the places (ranking, position) at which an id occurs
Places(rankings, x) ==
    {p \in (1..Len(rankings)) \X (1..MaxRankLen) :
        p[2] <= Len(rankings[p[1]]) /\ rankings[p[1]][p[2]] = x}

\* the sum of 1/(k + r) over the places of an id, on the denominator ScoreScale
PlaceScore(rankings, k, x) ==
    LET n[r \in 1..MaxRankLen] ==
            Cardinality({p \in Places(rankings, x) : p[2] = r})
        sum[r \in 0..MaxRankLen] ==
            IF r = 0 THEN 0
            ELSE sum[r - 1] + n[r] * (ScoreScale(call.k, MaxRankLen) \div (call.k + r))
    IN  sum[MaxRankLen]

\* C16: with k >= 1, rrf_fuse returns every id of the rankings exactly once, by
\* descending sum of 1/(k + r) over the places it occurs at (an id at ranks 2 and 1 of
\* two lists comes before an id that occurs once, at rank 1 or 3); with max_results
\* the result is the first max(0, max_results) ids of that order; no rankings give
\* an empty result.
C16_FusedOrder ==
    (call.fn = "rrf_fuse" /\ ret # NoRet /\ call.k >= 1) =>
        LET rankings == call.rankings
            ids == UNION {{rankings[i][j] : j \in 1..Len(rankings[i])} : i \in 1..Len(rankings)}
            all == ret.all.value
            out == ret.out.value
            pos(x) == CHOOSE i \in 1..Len(all) : all[i] = x
        IN  /\ ret.all.kind = "value" /\ ret.out.kind = "value"
            /\ {all[i] : i \in 1..Len(all)} = ids
            /\ Len(all) = Cardinality(ids)
            /\ \A i, j \in 1..Len(all) :
                  i < j => PlaceScore(rankings, call.k, all[i]) >= PlaceScore(rankings, call.k, all[j])
            /\ \A x, y \in ids :
                  (/\ Len(rankings) = 2
                   /\ Places(rankings, x) = {<<1, 2>>, <<2, 1>>}
                   /\ \E r \in {1, 3} : \E i \in 1..2 : Places(rankings, y) = {<<i, r>>})
                  => pos(x) < pos(y)
            /\ out = SubSeq(all, 1, Min(Len(all), Max(0, ret.max_results)))
            /\ rankings = <<>> => all = <<>>

\* [[a, b, c], [b, c, d]] was fused to b, c, a, d and cut to its first two ids
C16_Witness ==
    /\ call.fn = "rrf_fuse" /\ ret # NoRet
    /\ call.rankings = << <<"a", "b", "c">>, <<"b", "c", "d">> >>
    /\ call.k = 60
    /\ ret.all.value = <<"b", "c", "a", "d">>
    /\ ret.max_results = 2 /\ ret.out.value = <<"b", "c">>

\* C17: rerank_passages_yesno returns a permutation of the input ids: the input ids
\* the model names come first, in the order the model first names them, the others
\* follow in their input order, ids not passed in and non-strings are ignored; with an
\* empty query, no passages or output without a ranked list the input order is returned.
C17_RerankPermutation ==
    (call.fn = "rerank" /\ ret # NoRet) =>
        LET in == call.passages
            out == ret.ids
            ranked == call.output.ranked_ids
            degenerate == call.query = "" \/ in = <<>> \/ call.output.kind # "ranked"
            named == {x \in SeqRange(in) : \E i \in 1..Len(ranked) : ranked[i].str /\ ranked[i].v = x}
            firstNamed(x) == CHOOSE i \in 1..Len(ranked) :
                                /\ ranked[i].str /\ ranked[i].v = x
                                /\ \A j \in 1..(i - 1) : ~(ranked[j].str /\ ranked[j].v = x)
            at(q, x) == CHOOSE i \in 1..Len(q) : q[i] = x
        IN  /\ Len(out) = Len(in)
            /\ SeqRange(out) = SeqRange(in)
            /\ degenerate => out = in
            /\ ~degenerate =>
                 \A x, y \in SeqRange(in) :
                    /\ (x \in named /\ y \notin named) => at(out, x) < at(out, y)
                    /\ (x \in named /\ y \in named /\ firstNamed(x) < firstNamed(y))
                          => at(out, x) < at(out, y)
                    /\ (x \notin named /\ y \notin named /\ at(in, x) < at(in, y))
                          => at(out, x) < at(out, y)

\* the model named c twice, an id that was not passed in and a, and omitted b
C17_Witness ==
    /\ call.fn = "rerank" /\ ret # NoRet
    /\ call.query = "q"
    /\ call.passages = <<"a", "b", "c">>
    /\ call.output.kind = "ranked"
    /\ call.output.ranked_ids = <<[str |-> TRUE, v |-> "c"], [str |-> TRUE, v |-> "c"],
                                  [str |-> TRUE, v |-> "a"]>>
    /\ ret.ids = <<"c", "a", "b">>

\* C18: a search with top_k >= 1 over N chunks returns exactly min(top_k, N) results,
\* of pairwise distinct chunks, by non-increasing final_score, each final_score being
\* vector_weight * vector_score + bm25_weight * bm25_score_norm with both components
\* in [0, 1]; a chunk of the BM25 pool that the vector pool lacks is a fusion candidate
\* whose vector score is the one computed from its own cosine.
C18_SearchResults ==
    (call.fn = "search" /\ ret # NoRet /\ call.top_k >= 1) =>
        /\ ret.out.kind = "value"
        /\ LET out == ret.out.value
               den == ret.denominator
           IN  /\ Len(out) = Min(call.top_k, Len(call.cos))
               /\ \A i, j \in 1..Len(out) : i # j => out[i].chunk # out[j].chunk
               /\ \A i \in 1..(Len(out) - 1) : out[i].final_score >= out[i + 1].final_score
               /\ \A i \in 1..Len(out) :
                    /\ out[i].chunk \in 1..Len(call.cos)
                    /\ out[i].final_score =
                          call.vector_weight * out[i].vector_score * den
                            + (10 - call.vector_weight) * out[i].bm25_score_norm * 4
                    /\ out[i].vector_score \in 0..4
                    /\ out[i].bm25_score_norm \in 0..den
        /\ \A idx \in ret.bm25_top_idx \ ret.vec_ids_list :
              \E i \in 1..Len(ret.scored) :
                 /\ ret.scored[i].chunk = idx
                 /\ ret.scored[i].vector_score = Min(Max(call.cos[idx] + 2, 0), 4)

\* chunk 3 is outside the vector pool (cosine -1) and in the BM25 pool (the only match);
\* it is returned with its own vector score 0 and a BM25 score of 1
C18_Witness ==
    /\ call.fn = "search" /\ ret # NoRet
    /\ call.cos = <<2, 0, 0>> /\ call.bm25 = <<0, 0, 2>>
    /\ call.top_k = 2 /\ call.candidate_k = 1
    /\ ret.vec_ids_list = {1, 2} /\ ret.bm25_top_idx = {1, 3}
    /\ ret.out.kind = "value" /\ Len(ret.out.value) = 2
    /\ \E i \in 1..Len(ret.scored) :
          ret.scored[i].chunk = 3 /\ ret.scored[i].vector_score = 2
             /\ ret.scored[i].bm25_score_norm = ret.denominator

\* C19: the chunker respects the token target: every chunk of two or more sentences
\* has an estimated token count of at most target_tokens, so a chunk over the target
\* is exactly one sentence.
C19_TokenTarget ==
    (call.fn = "chunk" /\ ret # NoRet) =>
        \A n \in 1..Len(ret.chunks) :
            LET sents == ret.chunks[n]
                estimate == sum_tokens(ret.all_sentences, sents)
            IN  /\ Len(sents) >= 2 => estimate <= call.target_tokens
                /\ estimate > call.target_tokens => Len(sents) = 1

\* target 3, overlap 2, three sentences of 2 tokens: the second chunk is the carried
\* first sentence and the second one, 4 tokens in two sentences
C19_Witness ==
    /\ call.fn = "chunk" /\ ret # NoRet
    /\ ret.all_sentences = <<2, 2, 2>> /\ call.target_tokens = 3 /\ call.overlap_tokens = 2
    /\ ~call.semantic_enabled
    /\ Len(ret.chunks) >= 2
    /\ ret.chunks[2] = <<1, 2>>

\* C20: repack_chunks returns the very list it was given when the strategy, trimmed and
\* lower-cased, is forward, none, off, disabled or disable, and the reversed list for
\* every other strategy; reversing twice gives the original order; with fast_mode
\* apply_repack_strategy returns the list it was given, without it what repack_chunks
\* returns.
C20_Repack ==
    (call.fn = "repack" /\ ret # NoRet) =>
        LET in == call.chunks
            n == Len(in.items)
            keeps == \E k \in 1..Len(call.strategy) :
                        /\ call.strategy[k] \in {"forward", "FORWARD", "none", "Off",
                                                 "disabled", "disable"}
                        /\ \A i \in 1..Len(call.strategy) : i # k => call.strategy[i] = " "
            isReversed(out) == /\ Len(out.items) = n
                               /\ \A i \in 1..n : out.items[i] = in.items[n + 1 - i]
        IN  /\ keeps => ret.repacked = in
            /\ ~keeps => isReversed(ret.repacked)
            /\ isReversed(ret.reversed)
            /\ ret.twice.items = in.items
            /\ call.fast_mode => ret.applied = in
            /\ ~call.fast_mode => ret.applied = ret.repacked

\* " FORWARD " keeps the list, without fast mode
C20_Witness ==
    /\ call.fn = "repack" /\ ret # NoRet
    /\ call.strategy = <<" ", "FORWARD", " ">>
    /\ call.chunks.items = <<"a", "b", "b">>
    /\ ~call.fast_mode
    /\ ret.applied = call.chunks
    /\ ret.reversed.items = <<"b", "b", "a">> /\ ret.reversed.ref # call.chunks.ref

\* the overlap carried out of chunk n is a tail of it, in order, and opens chunk n + 1
CarriedTail(n) ==
    LET flushed == ret.chunks[n]
        overlap == ret.overlaps[n]
        k == Len(flushed) - Len(overlap)
    IN  /\ k >= 0
        /\ \A i \in 1..Len(overlap) : overlap[i] = flushed[k + i]
        /\ Len(ret.chunks[n + 1]) >= Len(overlap)
        /\ \A i \in 1..Len(overlap) : ret.chunks[n + 1][i] = overlap[i]

\* 2-token sentences, target 4, overlap 2: a chunk after the first starts with the last
\* sentence of the chunk before it
TwoTokenExample ==
    ((\A i \in 1..Len(ret.all_sentences) : ret.all_sentences[i] = 2)
        /\ call.target_tokens = 4 /\ call.overlap_tokens = 2 /\ ~call.semantic_enabled) =>
        \A n \in 1..(Len(ret.chunks) - 1) :
            ret.chunks[n + 1][1] = ret.chunks[n][Len(ret.chunks[n])]

\* C23 (as stated): the overlap carried into the next buffer is a tail of the flushed
\* sentences, in order, of at most overlap_tokens tokens; it is empty when overlap_tokens
\* is 0 and when the last flushed sentence alone has more than overlap_tokens tokens.
C23_OverlapWithinBudget ==
    (call.fn = "chunk" /\ ret # NoRet) =>
        /\ \A n \in 1..(Len(ret.chunks) - 1) :
              LET flushed == ret.chunks[n]
                  overlap == ret.overlaps[n]
              IN  /\ CarriedTail(n)
                  /\ sum_tokens(ret.all_sentences, overlap) <= call.overlap_tokens
                  /\ call.overlap_tokens = 0 => overlap = <<>>
                  /\ ret.all_sentences[flushed[Len(flushed)]] > call.overlap_tokens => overlap = <<>>
        /\ TwoTokenExample

\* C23 (amended): the overlap is a tail of the flushed sentences, in order; it is empty
\* exactly when overlap_tokens is 0; otherwise the last flushed sentence is always
\* carried, whatever its size, and earlier sentences are added only while the total
\* stays within overlap_tokens, until it reaches overlap_tokens.
C23_OverlapCarriesLast ==
    (call.fn = "chunk" /\ ret # NoRet) =>
        /\ \A n \in 1..(Len(ret.chunks) - 1) :
              LET flushed == ret.chunks[n]
                  overlap == ret.overlaps[n]
                  total == sum_tokens(ret.all_sentences, overlap)
                  k == Len(flushed) - Len(overlap)
              IN  /\ CarriedTail(n)
                  /\ (overlap = <<>>) <=> (call.overlap_tokens = 0)
                  /\ Len(overlap) >= 2 => total <= call.overlap_tokens
                  /\ (overlap # <<>> /\ k >= 1 /\ total < call.overlap_tokens)
                        => total + ret.all_sentences[flushed[k]] > call.overlap_tokens
        /\ TwoTokenExample

\* overlap_tokens 1 and a flushed sentence of 2 tokens: it is carried into the next chunk
C23_Witness ==
    /\ call.fn = "chunk" /\ ret # NoRet
    /\ ret.all_sentences = <<2, 2, 2>> /\ call.target_tokens = 3 /\ call.overlap_tokens = 1
    /\ ~call.semantic_enabled
    /\ Len(ret.chunks) >= 2
    /\ ret.overlaps[1] = <<1>>
    /\ ret.chunks[2] = <<1, 2>>

\* the smallest position of an id over all the rankings
SmallestRank(rankings, x) ==
    CHOOSE r \in {p[2] : p \in Places(rankings, x)} :
        \A p \in Places(rankings, x) : r <= p[2]

\* the position of an id in the first of the rankings, in the order given, that holds it
FirstSeenRank(rankings, x) ==
    LET i0 == CHOOSE i \in {p[1] : p \in Places(rankings, x)} :
                  \A p \in Places(rankings, x) : i <= p[1]
    IN  CHOOSE r \in {p[2] : p \in {q \in Places(rankings, x) : q[1] = i0}} :
            \A p \in Places(rankings, x) : p[1] = i0 => r <= p[2]

\* ids of equal score come by ascending rank(x), then by id
TiesBy(rank(_)) ==
    LET rankings == call.rankings
        all == ret.all.value
    IN  \A i, j \in 1..Len(all) :
           (i < j /\ PlaceScore(rankings, call.k, all[i]) = PlaceScore(rankings, call.k, all[j]))
              => \/ rank(all[i]) < rank(all[j])
                 \/ rank(all[i]) = rank(all[j]) /\ IdIndex(all[i]) < IdIndex(all[j])

\* C22 (as stated): ids of equal cumulative score are ordered by ascending first rank,
\* the smallest position of the id in any ranking, whatever the order of the rankings,
\* then by id; for [[b,c,a],[a,d,b]] a precedes b.
C22_TiesBySmallestRank ==
    (call.fn = "rrf_fuse" /\ ret # NoRet /\ call.k >= 1) =>
        /\ TiesBy(LAMBDA x : SmallestRank(call.rankings, x))
        /\ call.rankings = << <<"b", "c", "a">>, <<"a", "d", "b">> >>
              => ret.all.value = <<"a", "b", "c", "d">>

\* C22 (amended): ids of equal cumulative score are ordered by the position the id has
\* in the first ranking, in the order given, that contains it, then by id; for
\* [[b,c,a],[a,d,b]] b (first met at 1) precedes a (first met at 3).
C22_TiesByFirstSeenRank ==
    (call.fn = "rrf_fuse" /\ ret # NoRet /\ call.k >= 1) =>
        /\ TiesBy(LAMBDA x : FirstSeenRank(call.rankings, x))
        /\ call.rankings = << <<"b", "c", "a">>, <<"a", "d", "b">> >>
              => ret.all.value = <<"b", "a", "c", "d">>

C22_Witness ==
    /\ call.fn = "rrf_fuse" /\ ret # NoRet
    /\ call.k = 60
    /\ call.rankings = << <<"b", "c", "a">>, <<"a", "d", "b">> >>
    /\ ret.all.value = <<"b", "a", "c", "d">>

\* decay^i for row i (from 0) of m rows, decay in tenths, on the denominator 10^(m-1)
RECURSIVE Power(_, _)
Power(b, e) == IF e = 0 THEN 1 ELSE b * Power(b, e - 1)

DecayWeight(decay, m, i) == Power(decay, i) * Power(10, m - 1 - i)

\* C21: the rows v_0..v_(m-1) of a query, and of the HyDE passage, are collapsed into
\* sum(decay^i * v_i) / sum(decay^i) with the configured decay, not into the plain mean;
\* with decay < 1 and two rows the first row weighs more than the second.
C21_DecayedMean ==
    (call.fn = "aggregate" /\ ret # NoRet) =>
        LET m == Len(call.rows)
            w(i) == DecayWeight(call.decay, m, i - 1)
            total[i \in 0..m] == IF i = 0 THEN 0 ELSE total[i - 1] + w(i)
            weighted(j) ==
                LET acc[i \in 0..m] ==
                        IF i = 0 THEN 0 ELSE acc[i - 1] + w(i) * call.rows[i][j]
                IN  acc[m]
        IN  /\ \A j \in 1..MaxEmbDim : ret.vec.num[j] * total[m] = ret.vec.den * weighted(j)
            /\ (m = 2 /\ call.decay < 10) => w(1) > w(2)

\* decay 0.7, rows (1, 0) and (0, 0): the vector is (1/2, 0), the plain mean, where the
\* decayed mean is (10/17, 0)
C21_Witness ==
    /\ call.fn = "aggregate" /\ ret # NoRet
    /\ call.site = "query" /\ call.decay = 7
    /\ Len(call.rows) = 2
    /\ call.rows[1] = <<1, 0>> /\ call.rows[2] = <<0, 0>>
    /\ ret.vec.num = <<1, 0>> /\ ret.vec.den = 2

C25_SweeperReaps ==
    /\ [](sweeper.pc = "waiting" => sweeper.waited <= session_cleanup_interval_seconds)
    /\ [][(sweeper.pc = "test" /\ sweeper'.pc # "test" /\ ~sweeper'.shutdown_event) =>
             /\ sweeper'.pc = "waiting"
             /\ DOMAIN SESSIONS' =
                   {sid \in DOMAIN SESSIONS :
                       ~(SESSIONS[sid].expires_at # 0 /\ SESSIONS[sid].expires_at <= now)}]_vars
    /\ \A sid \in SessionIds :
          (sid \in DOMAIN SESSIONS /\ SESSIONS[sid].expires_at # 0
             /\ SESSIONS[sid].expires_at <= now)
          ~> \/ sid \notin DOMAIN SESSIONS
             \/ sid \in DOMAIN SESSIONS /\ SESSIONS[sid].expires_at > now
             \/ sweeper.shutdown_event
    /\ [](sweeper.shutdown_event => sweeper.pc = "done")
    /\ [][sweeper.shutdown_event =>
             sweeper' = sweeper /\ DOMAIN SESSIONS \subseteq DOMAIN SESSIONS']_vars

\* a pass has reaped a session after the loop had waited out an interval
C25_Witness ==
    /\ sweeper.pc = "waiting" /\ sweeper.waited = 0
    /\ ~sweeper.shutdown_event
    /\ now >= 1 + session_cleanup_interval_seconds
    /\ store_ret.op = "cleanup" /\ store_ret.count >= 1

\* C26: after a re-upload has reset the session, every turn of the chat history and
\* every registered reference comes from a chat request admitted on the document of
\* that upload: a request that was in flight on the previous document when the reset
\* happened appends no turn pair and registers no reference.
C26_NoStaleCommit ==
    /\ \A i \in 1..Len(session.chat_history) :
          session.chat_history[i].role = "user" =>
             \E r \in Requests :
                /\ session.chat_history[i].content = user_query(r)
                /\ chat[r].admitted = session.filename
    /\ \A g \in 1..Len(session.references) :
          \E r \in Requests :
             /\ chat[r].status = 200
             /\ chat[r].admitted = session.filename
             /\ session.references[g] \in SeqRange(chat[r].citations)

\* the second upload has reset the session and made its document ready; the history
\* holds the turn of a request admitted on the first document, citing its chunks
C26_Witness ==
    /\ session.ingest_status = "ready"
    /\ session.filename = "u2" /\ session.chunks[1].doc = "u2"
    /\ Len(session.chat_history) = 2
    /\ chat["r1"].status = 200 /\ chat["r1"].admitted = "u1"
    /\ session.chat_history[2].citations # <<>>
    /\ session.chat_history[2].citations[1].doc = "u1"
    /\ session.references # <<>>

\* C27: with two overlapping uploads the session stays consistent with one document:
\* filename, chunk list and retriever belong to the same upload (the later one once
\* both ingestions have ended), and an ingest_status of error or processing never
\* coexists with a retriever or a chunk list that the other ingestion attached.
C27_OneDocument ==
    /\ \A i \in 1..Len(session.chunks) : session.chunks[i].doc = session.filename
    /\ session.retriever.built =>
          \A i \in 1..Len(session.retriever.chunks) :
             session.retriever.chunks[i].doc = session.filename
    /\ session.ingest_status \in {"error", "processing"} =>
          ~session.retriever.built /\ session.chunks = <<>>

\* both ingestions have ended: the session is named after the second upload, holds the
\* chunks and the retriever of the first and says error
C27_Witness ==
    /\ \A u \in Uploads : ingest[u].pc = "done"
    /\ session.filename = "u2"
    /\ session.ingest_status = "error"
    /\ session.retriever.built
    /\ session.chunks # <<>> /\ session.chunks[1].doc = "u1"

\* C28: a chat request that ends in an error response leaves the session as it was
\* (history, reference registry, chunk list, retriever, ingest status); only a request
\* that succeeds changes the history, by appending its user turn and then its
\* assistant turn after the turns that were there.
C28_ErrorLeavesSession ==
    [][\A r \in Requests :
         chat'[r] # chat[r] =>
            IF chat'[r].status = 200
            THEN /\ session'.chat_history =
                       session.chat_history \o
                          <<ChatTurn("user", user_query(r), <<>>),
                            ChatTurn("assistant", chat'[r].answer, chat'[r].citations)>>
                 /\ session'.chunks = session.chunks
                 /\ session'.retriever = session.retriever
                 /\ session'.ingest_status = session.ingest_status
                 /\ \A g \in 1..Len(session.references) :
                       session'.references[g] = session.references[g]
            ELSE session' = session]_vars

\* one request has succeeded and its turn pair is in the history; the other has ended
\* in an error response after being admitted, and the history holds no turn of it
C28_Witness ==
    \E r, q \in Requests :
       /\ chat[r].status = 200 /\ chat[r].pc = "done"
       /\ chat[q].status \in {400, 500, 502} /\ chat[q].pc = "done"
       /\ chat[q].admitted # None
       /\ Len(session.chat_history) = 2
       /\ session.chat_history[1].content = user_query(r)
       /\ session.references # <<>>

\* the sentences of the blocks before block b
RECURSIVE SentencesBefore(_)
SentencesBefore(b) ==
    IF b <= 1 THEN 0 ELSE SentencesBefore(b - 1) + Len(call.blocks[b - 1])

\* chunk n and the chunks after it, each without the overlap carried into it
RECURSIVE WithoutCarried(_)
WithoutCarried(n) ==
    IF n > Len(ret.chunks) THEN <<>>
    ELSE LET carried == IF n = 1 THEN 0 ELSE Len(ret.overlaps[n - 1])
         IN  SubSeq(ret.chunks[n], carried + 1, Len(ret.chunks[n])) \o WithoutCarried(n + 1)

\* C29: the chunks cover the sentence stream without loss or reordering: the stream is
\* the sentences of the blocks in block order; every sentence is in some chunk; a chunk
\* is a non-empty contiguous run of the stream; starts and ends of successive chunks do
\* not decrease; the chunks without the overlap carried into them, put end to end, are
\* the stream, every sentence once.
C29_Coverage ==
    (call.fn = "chunk" /\ ret # NoRet) =>
        LET N == Len(ret.all_sentences)
            chunks == ret.chunks
        IN  /\ N = SentencesBefore(Len(call.blocks) + 1)
            /\ \A b \in 1..Len(call.blocks) : \A j \in 1..Len(call.blocks[b]) :
                  ret.all_sentences[SentencesBefore(b) + j] = call.blocks[b][j]
            /\ \A x \in 1..N : \E n \in 1..Len(chunks) : x \in SeqRange(chunks[n])
            /\ \A n \in 1..Len(chunks) :
                  /\ chunks[n] # <<>>
                  /\ chunks[n][1] \in 1..N
                  /\ \A i \in 1..(Len(chunks[n]) - 1) : chunks[n][i + 1] = chunks[n][i] + 1
            /\ \A n \in 1..(Len(chunks) - 1) :
                  /\ chunks[n][1] <= chunks[n + 1][1]
                  /\ chunks[n][Len(chunks[n])] <= chunks[n + 1][Len(chunks[n + 1])]
            /\ WithoutCarried(1) = [x \in 1..N |-> x]

\* two blocks around a blank one, four sentences, three chunks with overlap
C29_Witness ==
    /\ call.fn = "chunk" /\ ret # NoRet
    /\ call.blocks = <<<<2, 1>>, <<>>, <<2, 2>>>>
    /\ call.target_tokens = 3 /\ call.overlap_tokens = 1 /\ ~call.semantic_enabled
    /\ Len(ret.chunks) >= 3
    /\ ret.chunks[1] = <<1, 2>>
    /\ ret.overlaps[1] = <<2>>

\* C30: every chunk after the first holds a sentence that is not in the chunk before it,
\* after a token-budget flush and after a semantic-boundary flush alike, and the chunks
\* are at most as many as the sentences.
C30_NewSentence ==
    (call.fn = "chunk" /\ ret # NoRet) =>
        /\ \A n \in 2..Len(ret.chunks) :
              \E x \in SeqRange(ret.chunks[n]) : x \notin SeqRange(ret.chunks[n - 1])
        /\ Len(ret.chunks) <= Len(ret.all_sentences)

\* two sentences of 2 tokens, target 3, overlap 2, a semantic boundary between them:
\* the first sentence is flushed, carried, and flushed again alone
C30_Witness ==
    /\ call.fn = "chunk" /\ ret # NoRet
    /\ call.blocks = <<<<2, 2>>>>
    /\ call.target_tokens = 3 /\ call.overlap_tokens = 2
    /\ call.semantic_enabled /\ call.far = <<TRUE>>
    /\ ret.chunks = <<<<1>>, <<1>>, <<1, 2>>>>

====
